---- MODULE Spec2Model ----
(***************************************************************************)
(* A model of the Ruda parser engine: the grammar validator                *)
(* (src/src/grammar.rs, mod validator) and the rule interpreter            *)
(* (src/src/parser.rs).  validate() and parse() are pure functions of the  *)
(* Parser aggregate and of the token stream; they are modelled as          *)
(* operators computed the way the code computes them, and the two actions  *)
(* Validate and Parse apply them to inputs drawn in Init.                  *)
(*                                                                         *)
(* Indices are those of the code: cursor.idx, rule indices and byte        *)
(* offsets are 0-based; TokAt translates to TLA+'s 1-based sequences.      *)
(***************************************************************************)
EXTENDS Integers, Sequences, FiniteSets, TLC

VARIABLES parser, txt, tokens, validation, result

vars == <<parser, txt, tokens, validation, result>>

(***************************************************************************)
(* Bounds of the model.                                                    *)
(***************************************************************************)
\* longest token stream drawn in Init, the final Eof not counted
MaxToks == 3
\* rule evaluations one parse may make before the model gives up on it
MaxSteps == 40
\* longest token stream drawn in InitV, the final Eof not counted
MaxToksV == 1

(***************************************************************************)
(* Token kinds (lexer::TokenKinds) and tokens (lexer::Token).              *)
(***************************************************************************)
KText == <<"Text">>
KWhitespace == <<"Whitespace">>
KEol == <<"Control", "Eol">>
KEof == <<"Control", "Eof">>
KTok(lit) == <<"Token", lit>>

\* TokenKinds::is_whitespace: Whitespace and Control(Eol) are skipped
IsWhitespace(kind) == kind = KWhitespace \/ kind = KEol

\* the kind the lexer gives a lexeme of the input alphabet
KindOf(lexeme) ==
    CASE lexeme = " " -> KWhitespace
      [] lexeme = "\n" -> KEol
      [] lexeme \in {"+", "-", ";", "="} -> KTok(lexeme)
      [] OTHER -> KText

\* the tokens of a text given as its sequence of lexemes: byte ranges are
\* consecutive, and the synthetic Eof has index = text.len() and len = 0
RECURSIVE MkTokens(_, _)
MkTokens(lexemes, index) ==
    IF lexemes = <<>>
    THEN << [kind |-> KEof, index |-> index, len |-> 0, str |-> ""] >>
    ELSE << [kind |-> KindOf(Head(lexemes)), index |-> index,
             len |-> Len(Head(lexemes)), str |-> Head(lexemes)] >>
         \o MkTokens(Tail(lexemes), index + Len(Head(lexemes)))

\* tokens[i] of the code (0-based)
TokAt(toks, i) == toks[i + 1]

\* lexer.stringify(token, text)
Stringify(tok) == tok.str

(***************************************************************************)
(* The scanner, on a text given as its sequence of characters.  A          *)
(* character is a one-character string; `ú` takes two bytes, every other   *)
(* character of the model one.                                             *)
(***************************************************************************)
\* char::len_utf8
Width(c) == IF c = "ú" THEN 2 ELSE 1

RECURSIVE ByteLen(_), Join(_), Bytes(_)
\* str::len, in bytes
ByteLen(chars) == IF chars = <<>> THEN 0 ELSE Width(Head(chars)) + ByteLen(Tail(chars))

\* the string of a sequence of characters
Join(chars) == IF chars = <<>> THEN "" ELSE Head(chars) \o Join(Tail(chars))

\* the bytes of a text: <<c, k>> is the k-th byte of the character c
Bytes(chars) ==
    IF chars = <<>>
    THEN <<>>
    ELSE [k \in 1..Width(Head(chars)) |-> <<Head(chars), k>>] \o Bytes(Tail(chars))

\* the characters of the literals the model declares
Spelling(lit) ==
    CASE lit = "" -> <<>>
      [] lit = "+=" -> <<"+", "=">>
      [] lit = "aa" -> <<"a", "a">>
      [] lit = "let" -> <<"l", "e", "t">>
      [] OTHER -> <<lit>>

\* the literal matches the text at the position i (1-based)
MatchesAt(chars, i, lit) ==
    /\ Spelling(lit) # <<>>
    /\ i + Len(Spelling(lit)) - 1 <= Len(chars)
    /\ \A k \in 1..Len(Spelling(lit)) : chars[i + k - 1] = Spelling(lit)[k]

\* a scanner that would take the first declared literal that matches
FirstLiteral(chars, i, token_kinds) ==
    IF \A j \in DOMAIN token_kinds : ~MatchesAt(chars, i, token_kinds[j])
    THEN 0
    ELSE CHOOSE j \in DOMAIN token_kinds :
            /\ MatchesAt(chars, i, token_kinds[j])
            /\ \A k \in 1..(j - 1) : ~MatchesAt(chars, i, token_kinds[k])

\* the longest literal of token_kinds that matches at i, the earliest of
\* them when several are as long; 0 when none matches
LongestLiteral(chars, i, token_kinds) ==
    IF \A j \in DOMAIN token_kinds : ~MatchesAt(chars, i, token_kinds[j])
    THEN 0
    ELSE CHOOSE j \in DOMAIN token_kinds :
            /\ MatchesAt(chars, i, token_kinds[j])
            /\ \A k \in DOMAIN token_kinds :
                  MatchesAt(chars, i, token_kinds[k]) =>
                      \/ Len(Spelling(token_kinds[k])) < Len(Spelling(token_kinds[j]))
                      \/ Len(Spelling(token_kinds[k])) = Len(Spelling(token_kinds[j])) /\ j <= k

IsSpace(c) == c \in {" ", "\t"}

\* the position after the Whitespace token that begins at i.  Each space or
\* tab is a token of its own: tests::stringify takes tokens[1..5] of
\* "Functiond\t 1 +.." to be "d\t 1", which are the four tokens `d`, tab,
\* space, `1` after the literal `Function`
SpaceEnd(chars, i) == i + 1

\* the position after the Text token that begins at i: the maximal run of
\* characters that are not whitespace, not a line end and not the start of
\* a literal
TextEnd(chars, i, token_kinds) ==
    CHOOSE e \in (i + 1)..(Len(chars) + 1) :
        /\ \A k \in (i + 1)..(e - 1) :
              /\ ~IsSpace(chars[k]) /\ chars[k] # "\n"
              /\ LongestLiteral(chars, k, token_kinds) = 0
        /\ e <= Len(chars) =>
              \/ IsSpace(chars[e]) \/ chars[e] = "\n"
              \/ LongestLiteral(chars, e, token_kinds) # 0

\* a token whose len would count characters, not bytes
CountedInChars(kind, chars, i, e, index) ==
    [kind |-> kind, index |-> index, len |-> e - i, str |-> Join(SubSeq(chars, i, e - 1))]

\* the token of the characters i..(e - 1), which begins at the byte index
Scanned(kind, chars, i, e, index) ==
    [kind |-> kind, index |-> index, len |-> ByteLen(SubSeq(chars, i, e - 1)),
     str |-> Join(SubSeq(chars, i, e - 1))]

\* the position after the token that begins at i, and its kind
TokenEnd(chars, i, token_kinds) ==
    IF LongestLiteral(chars, i, token_kinds) # 0
    THEN i + Len(Spelling(token_kinds[LongestLiteral(chars, i, token_kinds)]))
    ELSE IF chars[i] = "\n"
    THEN i + 1
    ELSE IF IsSpace(chars[i])
    THEN SpaceEnd(chars, i)
    ELSE TextEnd(chars, i, token_kinds)

TokenKind(chars, i, token_kinds) ==
    IF LongestLiteral(chars, i, token_kinds) # 0
    THEN KTok(token_kinds[LongestLiteral(chars, i, token_kinds)])
    ELSE IF chars[i] = "\n"
    THEN KEol
    ELSE IF IsSpace(chars[i])
    THEN KWhitespace
    ELSE KText

\* the raw tokens of the text from the position i on
RECURSIVE Scan(_, _, _, _)
Scan(chars, i, index, token_kinds) ==
    IF i > Len(chars)
    THEN << [kind |-> KEof, index |-> index, len |-> 0, str |-> ""] >>
    ELSE << Scanned(TokenKind(chars, i, token_kinds), chars, i,
                    TokenEnd(chars, i, token_kinds), index) >>
         \o Scan(chars, TokenEnd(chars, i, token_kinds),
                 index + ByteLen(SubSeq(chars, i, TokenEnd(chars, i, token_kinds) - 1)),
                 token_kinds)

\* Lexer::lex_utf8, without preprocessors
LexUtf8(lexer, chars) == Scan(chars, 1, 0, lexer.token_kinds)

\* Lexer::stringify_slice: the bytes of the text from the start of the first
\* token of the slice to the end of its last token
StringifySlice(toks, chars) ==
    IF toks = <<>>
    THEN <<>>
    ELSE SubSeq(Bytes(chars), toks[1].index + 1, toks[Len(toks)].index + toks[Len(toks)].len)

(***************************************************************************)
(* Grammar values (grammar.rs): constructors for MatchToken, Parameters,   *)
(* Rule and Commands.  Every variant is a record with the same fields so   *)
(* that values of different variants can be compared.                      *)
(***************************************************************************)
MTToken(kind) == [m |-> "Token", kind |-> kind, name |-> ""]
MTNode(name) == [m |-> "Node", kind |-> <<>>, name |-> name]
MTWord(word) == [m |-> "Word", kind |-> <<>>, name |-> word]
MTEnumerator(name) == [m |-> "Enumerator", kind |-> <<>>, name |-> name]
MTAny == [m |-> "Any", kind |-> <<>>, name |-> ""]

PSet(v) == [p |-> "Set", v |-> v, n |-> 0, b |-> FALSE]
PGlobal(v) == [p |-> "Global", v |-> v, n |-> 0, b |-> FALSE]
PIncrement(v) == [p |-> "Increment", v |-> v, n |-> 0, b |-> FALSE]
PDecrement(v) == [p |-> "Decrement", v |-> v, n |-> 0, b |-> FALSE]
PIncrementGlobal(v) == [p |-> "IncrementGlobal", v |-> v, n |-> 0, b |-> FALSE]
PTrue(v) == [p |-> "True", v |-> v, n |-> 0, b |-> FALSE]
PFalse(v) == [p |-> "False", v |-> v, n |-> 0, b |-> FALSE]
PTrueGlobal(v) == [p |-> "TrueGlobal", v |-> v, n |-> 0, b |-> FALSE]
PFalseGlobal(v) == [p |-> "FalseGlobal", v |-> v, n |-> 0, b |-> FALSE]
PPrintStr(s) == [p |-> "Print", v |-> s, n |-> 0, b |-> FALSE]
PDebug(opt) == [p |-> "Debug", v |-> opt, n |-> 0, b |-> FALSE]
PBack(n) == [p |-> "Back", v |-> "", n |-> n, b |-> FALSE]
PReturn == [p |-> "Return", v |-> "", n |-> 0, b |-> FALSE]
PBreak(n) == [p |-> "Break", v |-> "", n |-> n, b |-> FALSE]
PHardError(b) == [p |-> "HardError", v |-> "", n |-> 0, b |-> b]
PGoto(label) == [p |-> "Goto", v |-> label, n |-> 0, b |-> FALSE]
PNodeStart == [p |-> "NodeStart", v |-> "", n |-> 0, b |-> FALSE]
PNodeEnd == [p |-> "NodeEnd", v |-> "", n |-> 0, b |-> FALSE]

\* grammar::OneOf
OneOf(token, rules, parameters) ==
    [token |-> token, rules |-> rules, parameters |-> parameters]

NoCmd == [c |-> "", a |-> "", b |-> "", op |-> "", set |-> FALSE]

\* a Rule; the fields a variant does not have are empty
MkRule(r, token, rules, isnt, parameters, alts, cmd) ==
    [r |-> r, token |-> token, rules |-> rules, isnt |-> isnt,
     parameters |-> parameters, alts |-> alts, cmd |-> cmd]

Is(token, rules, parameters) == MkRule("Is", token, rules, <<>>, parameters, <<>>, NoCmd)
Isnt(token, rules, parameters) == MkRule("Isnt", token, rules, <<>>, parameters, <<>>, NoCmd)
IsOneOf(alts) == MkRule("IsOneOf", MTAny, <<>>, <<>>, <<>>, alts, NoCmd)
Maybe(token, is, isnt, parameters) == MkRule("Maybe", token, is, isnt, parameters, <<>>, NoCmd)
MaybeOneOf(alts, isnt) == MkRule("MaybeOneOf", MTAny, <<>>, isnt, <<>>, alts, NoCmd)
While(token, rules, parameters) == MkRule("While", token, rules, <<>>, parameters, <<>>, NoCmd)
Loop(rules) == MkRule("Loop", MTAny, rules, <<>>, <<>>, <<>>, NoCmd)
Until(token, rules, parameters) == MkRule("Until", token, rules, <<>>, parameters, <<>>, NoCmd)
UntilOneOf(alts) == MkRule("UntilOneOf", MTAny, <<>>, <<>>, <<>>, alts, NoCmd)
Command(cmd, rules) == MkRule("Command", MTAny, rules, <<>>, <<>>, <<>>, cmd)

CmdCompare(left, right, op, rules) ==
    Command([c |-> "Compare", a |-> left, b |-> right, op |-> op, set |-> FALSE], rules)
CmdError(message) ==
    Command([c |-> "Error", a |-> message, b |-> "", op |-> "", set |-> FALSE], <<>>)
CmdHardError(set) ==
    Command([c |-> "HardError", a |-> "", b |-> "", op |-> "", set |-> set], <<>>)
CmdGoto(label) ==
    Command([c |-> "Goto", a |-> label, b |-> "", op |-> "", set |-> FALSE], <<>>)
CmdLabel(name) ==
    Command([c |-> "Label", a |-> name, b |-> "", op |-> "", set |-> FALSE], <<>>)
CmdPrintMsg(message) ==
    Command([c |-> "Print", a |-> message, b |-> "", op |-> "", set |-> FALSE], <<>>)

\* grammar::Node and grammar::Enumerator
GNode(name, rules, variables) == [name |-> name, rules |-> rules, variables |-> variables]
GEnum(name, values) == [name |-> name, values |-> values]

\* Grammar::new() and Parser::new(): empty maps, eof = false, entry = "entry"
DEFAULT_ENTRY == "entry"
EmptyMap == <<>>
MkGrammar(nodes, enumerators, globals, eof) ==
    [nodes |-> nodes, enumerators |-> enumerators, globals |-> globals, eof |-> eof]
MkParser(token_kinds, grammar, entry) ==
    [lexer |-> [token_kinds |-> token_kinds], grammar |-> grammar, entry |-> entry]

(***************************************************************************)
(* What a grammar contains: the rules of a rule list with the rules nested *)
(* in them at any depth, and the parameters and targets of a rule with     *)
(* those of its alternatives.                                              *)
(***************************************************************************)
RECURSIVE FlatRules(_), FlatAlts(_), AltParameters(_)

FlatAlts(alts) ==
    IF alts = <<>> THEN <<>> ELSE FlatRules(Head(alts).rules) \o FlatAlts(Tail(alts))

FlatRules(rules) ==
    IF rules = <<>>
    THEN <<>>
    ELSE <<Head(rules)>> \o FlatRules(Head(rules).rules) \o FlatRules(Head(rules).isnt)
             \o FlatAlts(Head(rules).alts) \o FlatRules(Tail(rules))

AltParameters(alts) ==
    IF alts = <<>> THEN <<>> ELSE Head(alts).parameters \o AltParameters(Tail(alts))

ParametersOf(rule) == rule.parameters \o AltParameters(rule.alts)

TargetsOf(rule) ==
    IF rule.r \in {"Is", "Isnt", "Maybe", "While", "Until"}
    THEN {rule.token}
    ELSE {rule.alts[j].token : j \in DOMAIN rule.alts}

\* how many Goto commands and Goto parameters of the rules name the label,
\* and how many Label commands declare it
GotoCount(rules, label) ==
    Cardinality({i \in DOMAIN FlatRules(rules) :
                    /\ FlatRules(rules)[i].r = "Command"
                    /\ FlatRules(rules)[i].cmd.c = "Goto"
                    /\ FlatRules(rules)[i].cmd.a = label})
    + Cardinality({ij \in UNION {{<<i, j>> : j \in DOMAIN ParametersOf(FlatRules(rules)[i])} :
                                    i \in DOMAIN FlatRules(rules)} :
                    ParametersOf(FlatRules(rules)[ij[1]])[ij[2]] = PGoto(label)})
LabelCount(rules, label) ==
    Cardinality({i \in DOMAIN FlatRules(rules) :
                    /\ FlatRules(rules)[i].r = "Command"
                    /\ FlatRules(rules)[i].cmd.c = "Label"
                    /\ FlatRules(rules)[i].cmd.a = label})

(***************************************************************************)
(* The grammar validator (grammar.rs, mod validator).                      *)
(* A ValidationResult is [errors, warnings, panicked]; panicked records    *)
(* that validate() did not return (an unwrap() on None).                   *)
(***************************************************************************)
VErr(kind, node_name) == [kind |-> kind, node_name |-> node_name]

NewValidation == [errors |-> <<>>, warnings |-> <<>>, panicked |-> FALSE]

\* Vec::contains
Contains(seq, x) == \E i \in 1..Len(seq) : seq[i] = x

\* iter().filter(|t| *t == token).count()
Count(seq, x) == Cardinality({i \in 1..Len(seq) : seq[i] = x})

\* char predicates of validate_tokens, on the literals the model declares
StartsNumeric(lit) == lit \in {"1", "60"}
ContainsWhitespace(lit) == lit \in {" "}
NotAscii(lit) == lit \in {"ú"}

\* the body of validate_tokens' loop for one literal not seen before
ValidateOneToken(token_kinds, token, res) ==
    LET e1 == IF Count(token_kinds, token) > 1
              THEN Append(res.errors, VErr(<<"TokenCollision", token>>, "__lexer__"))
              ELSE res.errors
        e2 == IF token = "" THEN Append(e1, VErr(<<"EmptyToken">>, "__lexer__")) ELSE e1
        w1 == IF StartsNumeric(token)
              THEN Append(res.warnings, VErr(<<"UnusualToken", token, "StartsNumeric">>, "__lexer__"))
              ELSE res.warnings
        w2 == IF ContainsWhitespace(token)
              THEN Append(w1, VErr(<<"UnusualToken", token, "ContainsWhitespace">>, "__lexer__"))
              ELSE w1
        w3 == IF Len(token) > 2
              THEN Append(w2, VErr(<<"UnusualToken", token, "TooLong">>, "__lexer__"))
              ELSE w2
        w4 == IF NotAscii(token)
              THEN Append(w3, VErr(<<"UnusualToken", token, "NotAscii">>, "__lexer__"))
              ELSE w3
    IN  IF token = ""
        THEN \* token.chars().next().unwrap() on the empty literal
             [errors |-> e2, warnings |-> res.warnings, panicked |-> TRUE]
        ELSE [errors |-> e2, warnings |-> w4, panicked |-> FALSE]

\* Lexer::validate_tokens
RECURSIVE ValidateTokens(_, _, _, _)
ValidateTokens(token_kinds, i, seen, res) ==
    IF i > Len(token_kinds) \/ res.panicked
    THEN res
    ELSE IF Contains(seen, token_kinds[i])
         THEN ValidateTokens(token_kinds, i + 1, seen, res)
         ELSE ValidateTokens(token_kinds, i + 1, Append(seen, token_kinds[i]),
                             ValidateOneToken(token_kinds, token_kinds[i], res))

\* TRUE once v is computed.  An operator's argument is computed where it is
\* first used; the loops below compute each accumulator before they go on, so
\* that a long grammar is not one long chain of pending computations
Evaluated(v) == v = v

\* the accumulator threaded through validate_rule: the LostAndFound of the
\* node and the ValidationResult
NewAcc(res) == [lost |-> <<>>, found |-> <<>>, errors |-> res.errors, warnings |-> res.warnings]

AddError(acc, kind, node) == [acc EXCEPT !.errors = Append(@, VErr(kind, node.name))]
AddWarning(acc, kind, node) == [acc EXCEPT !.warnings = Append(@, VErr(kind, node.name))]

\* Grammar::validate_token
ValidateToken(grammar, lexer, token, node, acc) ==
    CASE token.m = "Node" ->
           IF token.name \notin DOMAIN grammar.nodes
           THEN AddError(acc, <<"NodeNotFound", token.name>>, node)
           ELSE acc
      [] token.m = "Enumerator" ->
           IF token.name \notin DOMAIN grammar.enumerators
           THEN AddError(acc, <<"EnumeratorNotFound", token.name>>, node)
           ELSE acc
      [] token.m = "Any" -> AddWarning(acc, <<"UsedDepricated", "Any">>, node)
      [] token.m = "Token" ->
           IF token.kind[1] = "Token"
           THEN IF token.kind[2] = ""
                THEN AddError(acc, <<"EmptyToken">>, node)
                ELSE IF ~Contains(lexer.token_kinds, token.kind[2])
                     THEN AddError(acc, <<"TokenNotFound", token.kind[2]>>, node)
                     ELSE acc
           ELSE acc
      [] OTHER -> acc

\* validate_parameters: where a parameter's variable is looked up
ValidatedScope(p) ==
    IF p \in {"Global", "IncrementGlobal", "TrueGlobal", "FalseGlobal"}
    THEN "globals"
    ELSE "node"

\* a validator that accepts a parameter on a variable of any kind
AnyKind(p) == {"Node", "NodeList", "Boolean", "Number"}

\* validate_parameters: the variable kinds a parameter is accepted on
ValidatedKinds(p) ==
    CASE p \in {"Set", "Global"} -> {"Node", "NodeList"}
      [] p \in {"Increment", "Decrement", "IncrementGlobal"} -> {"Number"}
      [] p \in {"True", "False", "TrueGlobal", "FalseGlobal"} -> {"Boolean"}
      [] OTHER -> {}

\* one parameter of validate_parameters
ValidateParameter(grammar, par, node, acc) ==
    CASE par.p \in {"Set", "Global", "Increment", "Decrement", "IncrementGlobal",
                    "True", "False", "TrueGlobal", "FalseGlobal"} ->
           LET glob == ValidatedScope(par.p) = "globals"
               map == IF glob THEN grammar.globals ELSE node.variables
           IN  IF par.v \notin DOMAIN map
               THEN AddError(acc, <<IF glob THEN "GlobalNotFound" ELSE "VariableNotFound", par.v>>, node)
               ELSE IF map[par.v] \notin ValidatedKinds(par.p)
                    THEN AddError(acc, <<"CantUseVariable", par.v>>, node)
                    ELSE acc
      [] par.p = "Print" -> AddWarning(acc, <<"UsedPrint">>, node)
      [] par.p = "Debug" ->
           AddWarning(IF par.v # "" /\ par.v \notin DOMAIN node.variables
                      THEN AddError(acc, <<"VariableNotFound", par.v>>, node)
                      ELSE acc,
                      <<"UsedDebug">>, node)
      [] par.p = "Back" -> AddWarning(acc, <<"UsedDepricated", "Back">>, node)
      [] par.p = "Goto" -> [acc EXCEPT !.lost = Append(@, par.v)]
      [] OTHER -> acc

\* Grammar::validate_parameters
RECURSIVE ValidateParameters(_, _, _, _, _)
ValidateParameters(grammar, parameters, i, node, acc) ==
    IF i > Len(parameters)
    THEN acc
    ELSE LET a1 == ValidateParameter(grammar, parameters[i], node, acc)
         IN  IF Evaluated(a1)
             THEN ValidateParameters(grammar, parameters, i + 1, node, a1)
             ELSE acc

\* the operands of Commands::Compare, as validate_rule checks them
ValidateCompareOperand(grammar, name, node, acc) ==
    IF name \in DOMAIN grammar.globals
    THEN IF grammar.globals[name] = "Number"
         THEN acc
         ELSE AddError(acc, <<"CantUseVariable", name>>, node)
    ELSE AddError(acc, <<"GlobalNotFound", name>>, node)

RECURSIVE ValidateRule(_, _, _, _, _), ValidateRules(_, _, _, _, _, _), ValidateAlts(_, _, _, _, _, _)

\* for rule in rules { self.validate_rule(rule, ...) }
ValidateRules(grammar, lexer, rules, i, node, acc) ==
    IF i > Len(rules)
    THEN acc
    ELSE LET a1 == ValidateRule(grammar, lexer, rules[i], node, acc)
         IN  IF Evaluated(a1)
             THEN ValidateRules(grammar, lexer, rules, i + 1, node, a1)
             ELSE acc

\* the alternatives of IsOneOf, MaybeOneOf and UntilOneOf
ValidateAlts(grammar, lexer, alts, i, node, acc) ==
    IF i > Len(alts)
    THEN acc
    ELSE LET a1 == ValidateToken(grammar, lexer, alts[i].token, node, acc)
             a2 == ValidateParameters(grammar, alts[i].parameters, 1, node, a1)
             a3 == ValidateRules(grammar, lexer, alts[i].rules, 1, node, a2)
         IN  IF Evaluated(a3)
             THEN ValidateAlts(grammar, lexer, alts, i + 1, node, a3)
             ELSE acc

\* Grammar::validate_rule
ValidateRule(grammar, lexer, rule, node, acc) ==
    CASE rule.r \in {"Is", "Isnt", "While", "Until"} ->
           LET a1 == ValidateToken(grammar, lexer, rule.token, node, acc)
               a2 == ValidateParameters(grammar, rule.parameters, 1, node, a1)
           IN  ValidateRules(grammar, lexer, rule.rules, 1, node, a2)
      [] rule.r \in {"IsOneOf", "UntilOneOf"} ->
           ValidateAlts(grammar, lexer, rule.alts, 1, node, acc)
      [] rule.r = "Maybe" ->
           LET a1 == ValidateToken(grammar, lexer, rule.token, node, acc)
               a2 == ValidateParameters(grammar, rule.parameters, 1, node, a1)
               a3 == ValidateRules(grammar, lexer, rule.rules, 1, node, a2)
           IN  ValidateRules(grammar, lexer, rule.isnt, 1, node, a3)
      [] rule.r = "MaybeOneOf" ->
           ValidateRules(grammar, lexer, rule.isnt, 1, node,
                         ValidateAlts(grammar, lexer, rule.alts, 1, node, acc))
      [] rule.r = "Loop" -> ValidateRules(grammar, lexer, rule.rules, 1, node, acc)
      [] rule.r = "Command" ->
           CASE rule.cmd.c = "Compare" ->
                  LET a1 == ValidateCompareOperand(grammar, rule.cmd.a, node, acc)
                      a2 == ValidateCompareOperand(grammar, rule.cmd.b, node, a1)
                  IN  ValidateRules(grammar, lexer, rule.rules, 1, node, a2)
             [] rule.cmd.c = "Goto" -> [acc EXCEPT !.lost = Append(@, rule.cmd.a)]
             [] rule.cmd.c = "Label" ->
                  LET a1 == IF Contains(acc.found, rule.cmd.a)
                            THEN AddError(acc, <<"DuplicateLabel", rule.cmd.a>>, node)
                            ELSE acc
                  IN  [a1 EXCEPT !.found = Append(@, rule.cmd.a)]
             [] OTHER -> acc
      [] OTHER -> acc

\* LostAndFound::pass: the errors and warnings of the labels of one node
RECURSIVE LafLost(_, _, _, _), LafFound(_, _, _, _)
LafLost(acc, i, node, errors) ==
    IF i > Len(acc.lost)
    THEN errors
    ELSE LafLost(acc, i + 1, node,
                 IF ~Contains(acc.found, acc.lost[i])
                 THEN Append(errors, VErr(<<"LabelNotFound", acc.lost[i]>>, node.name))
                 ELSE errors)

LafFound(acc, i, node, warnings) ==
    IF i > Len(acc.found)
    THEN warnings
    ELSE LafFound(acc, i + 1, node,
                  IF ~Contains(acc.lost, acc.found[i])
                  THEN Append(warnings, VErr(<<"UnusedLabel", acc.found[i]>>, node.name))
                  ELSE warnings)

LafPass(acc, node) ==
    [errors |-> LafLost(acc, 1, node, acc.errors),
     warnings |-> LafFound(acc, 1, node, acc.warnings),
     panicked |-> FALSE]

\* a validate_node for which a Label of any node of the grammar would do
GrammarWideLabels(grammar, lexer, node, res) ==
    LafPass([ValidateRules(grammar, lexer, node.rules, 1, node, NewAcc(res)) EXCEPT
                !.lost = SelectSeq(@, LAMBDA l : \A n \in DOMAIN grammar.nodes :
                                                   LabelCount(grammar.nodes[n].rules, l) = 0)],
            node)

\* Grammar::validate_node
ValidateNode(grammar, lexer, node, res) ==
    LafPass(ValidateRules(grammar, lexer, node.rules, 1, node, NewAcc(res)), node)

\* for node in self.nodes.values() { self.validate_node(...) }
RECURSIVE ValidateNodes(_, _, _, _)
ValidateNodes(grammar, lexer, names, res) ==
    IF names = {}
    THEN res
    ELSE LET n == CHOOSE x \in names : TRUE
             r1 == ValidateNode(grammar, lexer, grammar.nodes[n], res)
         IN  IF Evaluated(r1)
             THEN ValidateNodes(grammar, lexer, names \ {n}, r1)
             ELSE res

\* Grammar::validate
ValidateGrammar(p) ==
    LET r0 == ValidateTokens(p.lexer.token_kinds, 1, <<>>, NewValidation)
    IN  IF r0.panicked
        THEN r0
        ELSE ValidateNodes(p.grammar, p.lexer, DOMAIN p.grammar.nodes, r0)

\* a pass that would ask for no warnings either
PassIfSilent(v) == v.errors = <<>> /\ v.warnings = <<>>

\* a success that would ask for no errors only
SuccessIfNoErrors(v) == v.errors = <<>>

\* ValidationResult::pass and ValidationResult::success
Pass(v) == v.errors = <<>>
Success(v) == v.errors = <<>> /\ v.warnings = <<>>

(***************************************************************************)
(* The parser (parser.rs): values of the parse.                            *)
(***************************************************************************)
\* parser::Nodes: a matched value is a token or a parsed node
TokenVal(tok) == [t |-> "Token", v |-> tok]
NodeVal(node) == [t |-> "Node", v |-> node]
NoVal == [t |-> "None", v |-> <<>>]

\* Nodes::is_token
IsToken(val) == val.t = "Token"

\* parser::VariableKind with its default value (Node::variables_from_grammar)
DefaultVar(kind) ==
    CASE kind = "Node" -> [k |-> "Node", val |-> <<>>]
      [] kind = "NodeList" -> [k |-> "NodeList", val |-> <<>>]
      [] kind = "Boolean" -> [k |-> "Boolean", val |-> FALSE]
      [] kind = "Number" -> [k |-> "Number", val |-> 0]

VariablesFromGrammar(variables) == [v \in DOMAIN variables |-> DefaultVar(variables[v])]

\* Node::new
NewNode(name) ==
    [name |-> name, variables |-> EmptyMap, first_string_idx |-> 0,
     last_string_idx |-> 0, harderror |-> FALSE]

\* Node::from_grammar, for a name the grammar defines
NodeFromGrammar(grammar, name) ==
    [NewNode(grammar.nodes[name].name) EXCEPT
        !.variables = VariablesFromGrammar(grammar.nodes[name].variables)]

\* ParseError{kind, location, node}: the location is given as the index of
\* the token it is taken from (-1 for TextLocation::new(0, 0)), node is
\* <<>> for None and <<n>> for Some(n)
PErr(kind, at, node) == [kind |-> kind, at |-> at, node |-> node]
NoErr == PErr(<<"Ok">>, -1, <<>>)

\* the outcome of a panic (an index out of bounds) and of a parse the
\* model gave up on; neither is a ParseError the code returns
Panic(at) == PErr(<<"Panic">>, at, <<>>)
Abandoned == PErr(<<"OutOfSteps">>, -1, <<>>)
Unwinds(err) == err.kind[1] \in {"Panic", "OutOfSteps"}

\* `match err.node { Some(ref node) => if node.harderror { return Err(err) } .. }`
IsHardMiss(err) == err.node # <<>> /\ err.node[1].harderror

\* parser::Msg and MsgBus
MsgOk == [m |-> "Ok", n |-> 0, label |-> ""]
MsgReturn == [m |-> "Return", n |-> 0, label |-> ""]
MsgBreak(n) == [m |-> "Break", n |-> n, label |-> ""]
MsgGoto(label) == [m |-> "Goto", n |-> 0, label |-> label]
MsgBack(n) == [m |-> "Back", n |-> n, label |-> ""]

\* parser::Cursor
Cursor(idx, to_advance) == [idx |-> idx, to_advance |-> to_advance]

(***************************************************************************)
(* The state one parse threads through its calls: the cursor, the globals, *)
(* the node under construction (node: &mut Node), and three values kept    *)
(* for the analysis only: the number of rule evaluations left, the depth   *)
(* of parse_rules calls, and the trace of what the interpreter did.        *)
(***************************************************************************)
NewState(grammar) ==
    [cursor |-> Cursor(0, FALSE),
     globals |-> VariablesFromGrammar(grammar.globals),
     node |-> NewNode(""),
     steps |-> MaxSteps, depth |-> 0, log |-> <<>>]

\* one entry of the trace: what happened (e), in which rule kind and
\* alternative, with which outcome, and the cursor before and after it
Ev(e, st, rule, alt, res, before, data) ==
    [e |-> e, depth |-> st.depth, node |-> st.node.name, rule |-> rule, alt |-> alt,
     res |-> res, before |-> before, after |-> st.cursor, data |-> data]

Log(st, ev) == [st EXCEPT !.log = Append(@, ev)]

(***************************************************************************)
(* parse_parameters.                                                       *)
(***************************************************************************)
\* results of parse_parameters and of one rule: ok, the error if not ok,
\* the state, and the messages sent to the rule list's bus
Done(st, bus) == [ok |-> TRUE, err |-> NoErr, st |-> st, bus |-> bus, advance |-> TRUE]
Again(st, bus) == [ok |-> TRUE, err |-> NoErr, st |-> st, bus |-> bus, advance |-> FALSE]
Failed(err, st) == [ok |-> FALSE, err |-> err, st |-> st, bus |-> <<>>, advance |-> TRUE]

\* whether the parameter reads node.variables or globals
RuntimeScope(p) ==
    IF p \in {"Global", "IncrementGlobal", "TrueGlobal", "FalseGlobal"}
    THEN "globals"
    ELSE "node"

\* an assignment that puts the newest element of a list first
PrependVar(par, var, value) ==
    IF par.p \in {"Set", "Global"} /\ var.k = "NodeList"
    THEN [ok |-> TRUE, var |-> [var EXCEPT !.val = <<value>> \o @]]
    ELSE [ok |-> par.p \in {"Set", "Global"} /\ var.k = "Node",
          var |-> [var EXCEPT !.val = <<value>>]]

\* an update under which a Number is a count that stops at zero
AssignCount(par, var, value) ==
    CASE par.p \in {"Set", "Global"} ->
           CASE var.k = "Node" -> [ok |-> TRUE, var |-> [var EXCEPT !.val = <<value>>]]
             [] var.k = "NodeList" -> [ok |-> TRUE, var |-> [var EXCEPT !.val = Append(@, value)]]
             [] OTHER -> [ok |-> FALSE, var |-> <<"CannotSetVariable", par.v, var.k>>]
      [] par.p \in {"Increment", "IncrementGlobal"} ->
           IF var.k = "Number"
           THEN [ok |-> TRUE, var |-> [var EXCEPT !.val = @ + 1]]
           ELSE [ok |-> FALSE, var |-> <<"UncountableVariable", par.v, var.k>>]
      [] par.p = "Decrement" ->
           IF var.k = "Number"
           THEN [ok |-> TRUE, var |-> [var EXCEPT !.val = IF @ > 0 THEN @ - 1 ELSE 0]]
           ELSE [ok |-> FALSE, var |-> <<"UncountableVariable", par.v, var.k>>]
      [] par.p \in {"True", "TrueGlobal"} ->
           IF var.k = "Boolean"
           THEN [ok |-> TRUE, var |-> [var EXCEPT !.val = TRUE]]
           ELSE [ok |-> FALSE, var |-> <<"UncountableVariable", par.v, var.k>>]
      [] par.p \in {"False", "FalseGlobal"} ->
           IF var.k = "Boolean"
           THEN [ok |-> TRUE, var |-> [var EXCEPT !.val = FALSE]]
           ELSE [ok |-> FALSE, var |-> <<"UncountableVariable", par.v, var.k>>]

\* the new value of the variable, or the error kind
AssignVar(par, var, value) ==
    CASE par.p \in {"Set", "Global"} ->
           CASE var.k = "Node" -> [ok |-> TRUE, var |-> [var EXCEPT !.val = <<value>>]]
             [] var.k = "NodeList" -> [ok |-> TRUE, var |-> [var EXCEPT !.val = Append(@, value)]]
             [] OTHER -> [ok |-> FALSE, var |-> <<"CannotSetVariable", par.v, var.k>>]
      [] par.p \in {"Increment", "IncrementGlobal"} ->
           IF var.k = "Number"
           THEN [ok |-> TRUE, var |-> [var EXCEPT !.val = @ + 1]]
           ELSE [ok |-> FALSE, var |-> <<"UncountableVariable", par.v, var.k>>]
      [] par.p = "Decrement" ->
           IF var.k = "Number"
           THEN [ok |-> TRUE, var |-> [var EXCEPT !.val = @ - 1]]
           ELSE [ok |-> FALSE, var |-> <<"UncountableVariable", par.v, var.k>>]
      [] par.p \in {"True", "TrueGlobal"} ->
           IF var.k = "Boolean"
           THEN [ok |-> TRUE, var |-> [var EXCEPT !.val = TRUE]]
           ELSE [ok |-> FALSE, var |-> <<"UncountableVariable", par.v, var.k>>]
      [] par.p \in {"False", "FalseGlobal"} ->
           IF var.k = "Boolean"
           THEN [ok |-> TRUE, var |-> [var EXCEPT !.val = FALSE]]
           ELSE [ok |-> FALSE, var |-> <<"UncountableVariable", par.v, var.k>>]

\* a parse_parameters that would leave the byte range of the node alone
Unpinned(toks, par, st) == st

\* Parameters::NodeStart and Parameters::NodeEnd: the node's range is pinned
\* to the token under the cursor
PinNode(toks, par, st) ==
    IF par.p = "NodeStart"
    THEN [st EXCEPT !.node.first_string_idx = TokAt(toks, st.cursor.idx).index]
    ELSE [st EXCEPT !.node.last_string_idx =
             TokAt(toks, st.cursor.idx).index + TokAt(toks, st.cursor.idx).len]

\* one parameter of parse_parameters
ParseParameter(toks, par, st, value, bus) ==
    CASE par.p \in {"Set", "Global", "Increment", "Decrement", "IncrementGlobal",
                    "True", "False", "TrueGlobal", "FalseGlobal"} ->
           LET glob == RuntimeScope(par.p) = "globals"
               map == IF glob THEN st.globals ELSE st.node.variables
           IN  IF par.v \notin DOMAIN map
               THEN Failed(PErr(<<"VariableNotFound", par.v>>, st.cursor.idx, <<>>), st)
               ELSE LET a == AssignVar(par, map[par.v], value)
                    IN  IF ~a.ok
                        THEN Failed(PErr(a.var, st.cursor.idx, <<>>), st)
                        ELSE IF glob
                             THEN Done([st EXCEPT !.globals[par.v] = a.var], bus)
                             ELSE Done([st EXCEPT !.node.variables[par.v] = a.var], bus)
      [] par.p = "Debug" ->
           IF par.v # "" /\ par.v \notin DOMAIN st.node.variables
           THEN Failed(PErr(<<"VariableNotFound", par.v>>, st.cursor.idx, <<>>), st)
           ELSE Done(st, bus)
      [] par.p = "HardError" -> Done([st EXCEPT !.node.harderror = par.b], bus)
      [] par.p \in {"NodeStart", "NodeEnd"} -> Done(PinNode(toks, par, st), bus)
      [] par.p = "Back" -> Done(st, Append(bus, MsgBack(par.n)))
      [] par.p = "Return" -> Done(st, Append(bus, MsgReturn))
      [] par.p = "Goto" -> Done(st, Append(bus, MsgGoto(par.v)))
      [] par.p = "Break" -> Done(st, Append(bus, MsgBreak(par.n)))
      [] OTHER -> Done(st, bus)

\* Parser::parse_parameters
RECURSIVE ParseParameters(_, _, _, _, _, _)
ParseParameters(toks, parameters, i, st, value, bus) ==
    IF i > Len(parameters)
    THEN Done(st, bus)
    ELSE LET r == ParseParameter(toks, parameters[i], st, value, bus)
         IN  IF r.ok
             THEN ParseParameters(toks, parameters, i + 1, r.st, value, r.bus)
             ELSE r

(***************************************************************************)
(* match_token, parse_node, parse_rules.                                   *)
(***************************************************************************)
RECURSIVE MatchToken(_, _, _, _, _), MatchEnumerator(_, _, _, _, _, _, _)
RECURSIVE ParseNode(_, _, _, _), ParseRules(_, _, _, _, _), RulesLoop(_, _, _, _, _, _)
RECURSIVE EvalRule(_, _, _, _, _), OneOfLoop(_, _, _, _, _, _, _)
RECURSIVE UntilLoop(_, _, _, _, _), UntilOneOfLoop(_, _, _, _, _)

\* TokenCompare::Is(val), TokenCompare::IsNot(err), and Err(err) returned
\* by match_token itself
MIs(val, st) == [res |-> "Is", val |-> val, err |-> NoErr, st |-> st]
MIsNot(err, st) == [res |-> "IsNot", val |-> NoVal, err |-> err, st |-> st]
MErr(err, st) == [res |-> "Err", val |-> NoVal, err |-> err, st |-> st]

\* while current_token.kind.is_whitespace() { cursor.idx += 1; ... }: the
\* index the loop stops at; Len(toks) when it runs off the tokens
RECURSIVE SkipWhitespace(_, _)
SkipWhitespace(toks, idx) ==
    IF idx >= Len(toks)
    THEN idx
    ELSE IF IsWhitespace(TokAt(toks, idx).kind)
         THEN SkipWhitespace(toks, idx + 1)
         ELSE idx

\* MatchToken::Token
MatchTokenKind(toks, kind, st) ==
    IF kind = KEof /\ st.cursor.idx >= Len(toks)
    THEN MIs(TokenVal([kind |-> KEof, index |-> 0, len |-> 0, str |-> ""]), st)
    ELSE IF st.cursor.idx >= Len(toks)
         THEN MIsNot(PErr(<<"Eof">>, st.cursor.idx - 1, <<>>), st)
         ELSE LET j == SkipWhitespace(toks, st.cursor.idx)
                  st1 == [st EXCEPT !.cursor.idx = j]
              IN  IF j >= Len(toks)
                  THEN MErr(Panic(j), st1)
                  ELSE IF kind # TokAt(toks, j).kind
                       THEN MIsNot(PErr(<<"ExpectedToken", kind, TokAt(toks, j).kind>>, j, <<>>), st1)
                       ELSE MIs(TokenVal(TokAt(toks, j)), st1)

\* MatchToken::Word
MatchWord(toks, word, st) ==
    LET j == SkipWhitespace(toks, st.cursor.idx)
        st1 == [st EXCEPT !.cursor.idx = j]
    IN  IF j >= Len(toks)
        THEN MErr(Panic(j), st1)
        ELSE IF TokAt(toks, j).kind = KText /\ word = Stringify(TokAt(toks, j))
             THEN MIs(TokenVal(TokAt(toks, j)), st1)
             ELSE MIsNot(PErr(<<"ExpectedWord", word, TokAt(toks, j).kind>>, j, <<>>), st1)

\* MatchToken::Any
MatchAny(toks, st) ==
    IF st.cursor.idx >= Len(toks)
    THEN MErr(Panic(st.cursor.idx), st)
    ELSE MIs(TokenVal(TokAt(toks, st.cursor.idx)), st)

\* a match_token that takes every failed node for a soft miss
NeverPromotes(node) == FALSE

\* `match node.harderror { true => return Err(err), false => IsNot(err) }`
NodePromotesError(node) == node.harderror

\* MatchToken::Node
MatchNode(g, toks, name, st) ==
    LET r == ParseNode(g, toks, name, st)
    IN  IF r.ok
        THEN MIs(NodeVal(r.node), r.st)
        ELSE IF Unwinds(r.err) \/ NodePromotesError(r.node)
             THEN MErr(r.err, r.st)
             ELSE MIsNot(r.err, r.st)

\* the loop of MatchToken::Enumerator over enumerator.values, from value i
MatchEnumerator(g, toks, values, i, cc, cursor_clone_local, st) ==
    IF i >= Len(values)
    THEN MIsNot(PErr(<<"ExpectedOneOf", values, TokAt(toks, st.cursor.idx).kind>>,
                     st.cursor.idx, <<>>), st)
    ELSE LET m == MatchToken(g, toks, values[i + 1], cc, st)
         IN  IF m.res # "IsNot"
             THEN m
             ELSE LET st1 == [m.st EXCEPT !.cursor = cursor_clone_local]
                  IN  IF IsHardMiss(m.err)
                      THEN MErr(m.err, st1)
                      ELSE MatchEnumerator(g, toks, values, i + 1, cc, cursor_clone_local, st1)

\* Parser::match_token
MatchToken(g, toks, token, cc, st) ==
    CASE token.m = "Token" -> MatchTokenKind(toks, token.kind, st)
      [] token.m = "Node" -> MatchNode(g, toks, token.name, st)
      [] token.m = "Word" -> MatchWord(toks, token.name, st)
      [] token.m = "Enumerator" ->
           IF token.name \notin DOMAIN g.enumerators
           THEN MErr(PErr(<<"EnumeratorNotFound", token.name>>, st.cursor.idx, <<>>), st)
           ELSE MatchEnumerator(g, toks, g.enumerators[token.name].values, 0, cc, st.cursor, st)
      [] token.m = "Any" -> MatchAny(toks, st)

\* a call of match_token by a rule, recorded in the trace
\* (with the caller's variables and the globals, before and after the call)
Attempted(rule, alt, token, st, m) ==
    [m EXCEPT !.st = Log(m.st, Ev("attempt", m.st, rule, alt, m.res, st.cursor,
                                  [target |-> token, hard |-> IsHardMiss(m.err),
                                   kind |-> m.err.kind,
                                   variables |-> <<st.node.variables, m.st.node.variables>>,
                                   globals |-> <<st.globals, m.st.globals>>]))]

Attempt(g, toks, rule, alt, token, cc, st) ==
    Attempted(rule, alt, token, st, MatchToken(g, toks, token, cc, st))

\* results of parse_node and parse_rules
NodeOk(node, st) == [ok |-> TRUE, err |-> NoErr, node |-> node, st |-> st]
NodeFailed(err, node, st) == [ok |-> FALSE, err |-> err, node |-> node, st |-> st]
RulesOk(msg, st) == [ok |-> TRUE, err |-> NoErr, msg |-> msg, st |-> st]
RulesFailed(err, st) == [ok |-> FALSE, err |-> err, msg |-> MsgOk, st |-> st]

\* `if node.last_string_idx == 0 { ... }` at the end of parse_node
DefaultLastIdx(toks, node, cursor) ==
    IF node.last_string_idx # 0
    THEN node
    ELSE IF cursor.idx >= Len(toks)
         THEN [node EXCEPT !.last_string_idx = toks[Len(toks)].index + toks[Len(toks)].len]
         ELSE [node EXCEPT !.last_string_idx =
                  TokAt(toks, cursor.idx).index + TokAt(toks, cursor.idx).len]

\* the end of parse_node, on the node the rules built: an error with the
\* node's name and harderror flag in the trace; out is the caller's state
NodeError(err, node, out, rst, before) ==
    NodeFailed(err, node,
               Log(out, Ev("nodefail", rst, "", 0,
                           IF node.harderror THEN "hard" ELSE "soft", before, err.kind)))

\* a parse_node that would rewind the cursor when its rules succeeded
RewoundResult(toks, st, cursor_clone, node, out, r) ==
    IF r.ok /\ r.msg.m \in {"Ok", "Return"}
    THEN NodeOk(node, Log([out EXCEPT !.cursor = cursor_clone],
                          Ev("nodeok", [r.st EXCEPT !.cursor = Cursor(0, FALSE)], "", 0,
                             r.msg.m, st.cursor, node)))
    ELSE NodeError(r.err, node, [out EXCEPT !.cursor = cursor_clone], r.st, st.cursor)

\* (the nodeok event carries the node that is returned)
\* `match result { Ok(msg) => match msg { .. }, Err(err) => { .. } }` of
\* parse_node, where r is the result of parse_rules and st the caller's state
MatchResult(toks, st, cursor_clone, node, out, r) ==
    IF r.ok
    THEN CASE r.msg.m \in {"Ok", "Return"} ->
                NodeOk(node, Log(out, Ev("nodeok", r.st, "", 0, r.msg.m, st.cursor, node)))
           [] r.msg.m = "Break" ->
                NodeError(PErr(<<"CannotBreak", r.msg.n>>, r.st.cursor.idx, <<node>>),
                          node, out, r.st, st.cursor)
           [] r.msg.m = "Back" ->
                NodeError(PErr(<<"CannotGoBack", r.msg.n>>, r.st.cursor.idx, <<node>>),
                          node, out, r.st, st.cursor)
           [] r.msg.m = "Goto" ->
                NodeError(PErr(<<"LabelNotFound", r.msg.label>>, r.st.cursor.idx, <<node>>),
                          node, out, r.st, st.cursor)
    ELSE NodeError(r.err, node, [out EXCEPT !.cursor = cursor_clone], r.st, st.cursor)

\* parse_node after its call of parse_rules; the caller's node is put back
\* into the state
AfterRules(toks, st, cursor_clone, r) ==
    MatchResult(toks, st, cursor_clone, DefaultLastIdx(toks, r.st.node, r.st.cursor),
                [r.st EXCEPT !.node = st.node], r)

\* Parser::parse_node
ParseNode(g, toks, name, st) ==
    IF name \notin DOMAIN g.nodes
    THEN NodeFailed(PErr(<<"NodeNotFound", name>>, -1, <<>>), NewNode(name), st)
    ELSE IF st.cursor.idx >= Len(toks)
    THEN NodeFailed(Panic(st.cursor.idx), NewNode(name), st)
    ELSE AfterRules(toks, st, st.cursor,
                    ParseRules(g, toks, g.nodes[name].rules, st.cursor,
                               [st EXCEPT !.node =
                                   [NodeFromGrammar(g, name) EXCEPT
                                       !.first_string_idx = TokAt(toks, st.cursor.idx).index]]))

(***************************************************************************)
(* The rules of parse_rules.                                               *)
(***************************************************************************)
\* fn err(): the cursor goes back to cursor_clone, the node's entry cursor
ErrRestoring(kind, at, cc, st) ==
    Failed(PErr(kind, at, <<st.node>>), [st EXCEPT !.cursor = cc])

\* `self.parse_rules(..)?.push(&mut msg_bus)`: the message of the nested
\* list r joins the messages the parameters sent
Pushed(bus, r) ==
    IF ~r.ok
    THEN Failed(r.err, r.st)
    ELSE Done(r.st, Append(bus, r.msg))

\* `if is_token { cursor.to_advance = true; }`
DeferAdvance(val, st) ==
    IF IsToken(val)
    THEN [st EXCEPT !.cursor.to_advance = TRUE]
    ELSE st

\* the trace entry of the parameters applied for the match m
ParamsApplied(rule, alt, m, st) ==
    Log(st, Ev("params", st, rule, alt, m.val.t, m.st.cursor, m.val))

\* the Is(val) arm after parse_parameters returned p
AfterParameters(g, toks, rule, alt, rules, cc, m, p) ==
    IF ~p.ok
    THEN Failed(p.err, p.st)
    ELSE Pushed(p.bus, ParseRules(g, toks, rules, cc,
                                  ParamsApplied(rule, alt, m, DeferAdvance(m.val, p.st))))

\* the Is(val) arm shared by the matching rules: parse_parameters, the
\* deferred advance for a token, the nested rules, whose message is pushed
OnMatch(g, toks, rule, alt, parameters, rules, cc, m) ==
    AfterParameters(g, toks, rule, alt, rules, cc, m,
                    ParseParameters(toks, parameters, 1, m.st, m.val, <<>>))

\* a nested rule list run without a match (isnt branches, Loop, Compare)
RunRules(g, toks, rule, what, rules, cc, st) ==
    Pushed(<<>>, ParseRules(g, toks, rules, cc,
                            Log(st, Ev(what, st, rule, 0, "", st.cursor, <<>>))))

\* Rule::Is
EvalIs(g, toks, rule, cc, st) ==
    LET m == Attempt(g, toks, "Is", 1, rule.token, cc, st)
    IN  IF m.res = "Is"
        THEN OnMatch(g, toks, "Is", 1, rule.parameters, rule.rules, cc, m)
        ELSE Failed(m.err, m.st)

\* an Isnt that takes the token under the cursor when its target misses
IsntConsuming(g, toks, rule, cc, st) ==
    LET m == Attempt(g, toks, "Isnt", 1, rule.token, cc, st)
    IN  CASE m.res = "Err" -> Failed(m.err, m.st)
          [] m.res = "Is" ->
               ErrRestoring(<<"ExpectedToNotBe", TokAt(toks, m.st.cursor.idx).kind>>,
                            m.st.cursor.idx, cc, m.st)
          [] m.res = "IsNot" ->
               RunRules(g, toks, "Isnt", "isnt", rule.rules, cc,
                        [m.st EXCEPT !.cursor.to_advance = TRUE])

\* Rule::Isnt
EvalIsnt(g, toks, rule, cc, st) ==
    LET m == Attempt(g, toks, "Isnt", 1, rule.token, cc, st)
    IN  CASE m.res = "Err" -> Failed(m.err, m.st)
          [] m.res = "Is" ->
               ErrRestoring(<<"ExpectedToNotBe", TokAt(toks, m.st.cursor.idx).kind>>,
                            m.st.cursor.idx, cc, m.st)
          [] m.res = "IsNot" -> RunRules(g, toks, "Isnt", "isnt", rule.rules, cc, m.st)

\* the result of the loop over the alternatives of a ...OneOf rule
Found(r) == [ok |-> r.ok, err |-> r.err, st |-> r.st, bus |-> r.bus, found |-> r.ok]
NotFound(st) == [ok |-> TRUE, err |-> NoErr, st |-> st, bus |-> <<>>, found |-> FALSE]

\* what IsOneOf does to the cursor on a miss whose error names no node
\* (`None => cursor.to_advance = false`); the other rules do nothing
AfterSoftMiss(rule, err, st) ==
    IF rule = "IsOneOf" /\ err.node = <<>>
    THEN [st EXCEPT !.cursor.to_advance = FALSE]
    ELSE st

\* `for OneOf {token, rules, parameters} in alts`, from alternative k
OneOfLoop(g, toks, rule, alts, k, cc, st) ==
    IF k > Len(alts)
    THEN NotFound(st)
    ELSE LET m == Attempt(g, toks, rule, k, alts[k].token, cc, st)
         IN  CASE m.res = "Err" -> Found(Failed(m.err, m.st))
               [] m.res = "Is" ->
                    Found(OnMatch(g, toks, rule, k, alts[k].parameters, alts[k].rules, cc, m))
               [] m.res = "IsNot" ->
                    IF IsHardMiss(m.err)
                    THEN Found(Failed(m.err, m.st))
                    ELSE OneOfLoop(g, toks, rule, alts, k + 1, cc,
                                   AfterSoftMiss(rule, m.err, m.st))

\* the targets listed from the last alternative to the first
ReversedTargets(alts) == [k \in 1..Len(alts) |-> alts[Len(alts) + 1 - k].token]

\* the expected list of ExpectedOneOf: the alternatives' targets in order
Targets(alts) == [k \in 1..Len(alts) |-> alts[k].token]

\* Rule::IsOneOf
EvalIsOneOf(g, toks, rule, cc, st) ==
    LET l == OneOfLoop(g, toks, "IsOneOf", rule.alts, 1, cc, st)
    IN  IF ~l.ok
        THEN Failed(l.err, l.st)
        ELSE IF l.found
             THEN Done(l.st, l.bus)
             ELSE ErrRestoring(<<"ExpectedOneOf", Targets(rule.alts),
                                 TokAt(toks, l.st.cursor.idx).kind>>,
                               l.st.cursor.idx, cc, l.st)

\* a Maybe that fails on a miss, as Is does
RequiredMaybe(g, toks, rule, cc, st) ==
    LET m == Attempt(g, toks, "Maybe", 1, rule.token, cc, st)
    IN  IF m.res = "Is"
        THEN OnMatch(g, toks, "Maybe", 1, rule.parameters, rule.rules, cc, m)
        ELSE Failed(m.err, m.st)

\* Rule::Maybe
EvalMaybe(g, toks, rule, cc, st) ==
    LET m == Attempt(g, toks, "Maybe", 1, rule.token, cc, st)
    IN  CASE m.res = "Err" -> Failed(m.err, m.st)
          [] m.res = "Is" -> OnMatch(g, toks, "Maybe", 1, rule.parameters, rule.rules, cc, m)
          [] m.res = "IsNot" ->
               IF IsHardMiss(m.err)
               THEN Failed(m.err, m.st)
               ELSE RunRules(g, toks, "Maybe", "isnt", rule.isnt, cc, m.st)

\* Rule::MaybeOneOf
EvalMaybeOneOf(g, toks, rule, cc, st) ==
    LET l == OneOfLoop(g, toks, "MaybeOneOf", rule.alts, 1, cc, st)
    IN  IF ~l.ok
        THEN Failed(l.err, l.st)
        ELSE IF l.found
             THEN Done(l.st, l.bus)
             ELSE RunRules(g, toks, "MaybeOneOf", "isnt", rule.isnt, cc, l.st)

\* a While that matches at most once, as Maybe does
WhileOnce(g, toks, rule, cc, st) ==
    LET m == Attempt(g, toks, "While", 1, rule.token, cc, st)
    IN  CASE m.res = "Err" -> Failed(m.err, m.st)
          [] m.res = "Is" -> OnMatch(g, toks, "While", 1, rule.parameters, rule.rules, cc, m)
          [] m.res = "IsNot" ->
               IF IsHardMiss(m.err)
               THEN Failed(m.err, m.st)
               ELSE Done(m.st, <<>>)

\* Rule::While: one iteration; `advance = false` makes the rule run again
EvalWhile(g, toks, rule, cc, st) ==
    LET m == Attempt(g, toks, "While", 1, rule.token, cc, st)
    IN  CASE m.res = "Err" -> Failed(m.err, m.st)
          [] m.res = "Is" ->
               LET r == OnMatch(g, toks, "While", 1, rule.parameters, rule.rules, cc, m)
               IN  IF r.ok THEN Again(r.st, r.bus) ELSE r
          [] m.res = "IsNot" ->
               IF IsHardMiss(m.err)
               THEN Failed(m.err, m.st)
               ELSE Done(m.st, <<>>)

\* `while let TokenCompare::IsNot(_) = self.match_token(..)? { cursor.idx += 1; .. }`
UntilLoop(g, toks, rule, cc, st) ==
    LET m == Attempt(g, toks, "Until", 1, rule.token, cc, st)
    IN  CASE m.res = "Err" -> Failed(m.err, m.st)
          [] m.res = "Is" ->
               OnMatch(g, toks, "Until", 1, rule.parameters, rule.rules, cc,
                       [m EXCEPT !.val = TokenVal(TokAt(toks, m.st.cursor.idx))])
          [] m.res = "IsNot" ->
               LET st1 == [m.st EXCEPT !.cursor.idx = @ + 1]
               IN  IF st1.cursor.idx >= Len(toks)
                   THEN Failed(PErr(<<"CouldNotFindToken", rule.token>>,
                                    st1.cursor.idx - 1, <<st1.node>>), st1)
                   ELSE UntilLoop(g, toks, rule, cc, st1)

\* an Until that gives up where it started instead of scanning on
UntilOnce(g, toks, rule, cc, st) ==
    LET m == Attempt(g, toks, "Until", 1, rule.token, cc, st)
    IN  CASE m.res = "Err" -> Failed(m.err, m.st)
          [] m.res = "Is" ->
               OnMatch(g, toks, "Until", 1, rule.parameters, rule.rules, cc,
                       [m EXCEPT !.val = TokenVal(TokAt(toks, m.st.cursor.idx))])
          [] m.res = "IsNot" ->
               Failed(PErr(<<"CouldNotFindToken", rule.token>>, m.st.cursor.idx, <<m.st.node>>),
                      m.st)

\* Rule::Until
EvalUntil(g, toks, rule, cc, st) == UntilLoop(g, toks, rule, cc, st)

\* `while cursor.idx < tokens.len() { for .. in match_tokens {..} .. cursor.idx += 1 }`
\* and the `if !found` after it, which reads tokens[cursor.idx]
UntilOneOfLoop(g, toks, rule, cc, st) ==
    IF st.cursor.idx >= Len(toks)
    THEN Failed(Panic(st.cursor.idx), st)
    ELSE LET l == OneOfLoop(g, toks, "UntilOneOf", rule.alts, 1, cc, st)
         IN  IF ~l.ok
             THEN Failed(l.err, l.st)
             ELSE IF l.found
                  THEN Done(l.st, l.bus)
                  ELSE UntilOneOfLoop(g, toks, rule, cc, [l.st EXCEPT !.cursor.idx = @ + 1])

\* Rule::UntilOneOf
EvalUntilOneOf(g, toks, rule, cc, st) == UntilOneOfLoop(g, toks, rule, cc, st)

\* a Loop that runs its body once and goes on with the next rule
LoopOnce(g, toks, rule, cc, st) == RunRules(g, toks, "Loop", "loop", rule.rules, cc, st)

\* Rule::Loop
EvalLoop(g, toks, rule, cc, st) ==
    LET r == RunRules(g, toks, "Loop", "loop", rule.rules, cc, st)
    IN  IF r.ok THEN Again(r.st, r.bus) ELSE r

\* comparisons among which the two that allow equality never hold
StrictComparisons(left, right) ==
    IF left.k = "Number" /\ right.k = "Number"
    THEN IF left.val = right.val
         THEN {"Equal"}
         ELSE {"NotEqual"} \cup (IF left.val > right.val THEN {"GreaterThan"} ELSE {"LessThan"})
    ELSE IF left.k = "Boolean" /\ right.k = "Boolean" /\ left.val = right.val
         THEN {"Equal"}
         ELSE {"NotEqual"}

\* Commands::Compare: the comparisons that hold between two variables
Comparisons(left, right) ==
    CASE left.k = "Node" ->
           IF right.k # "Node"
           THEN {"NotEqual"}
           ELSE IF left.val = <<>> /\ right.val = <<>>
                THEN {"Equal"}
                ELSE IF left.val = <<>> \/ right.val = <<>> \/ left.val[1].t # right.val[1].t
                     THEN {"NotEqual"}
                     ELSE IF left.val[1].t = "Node"
                          THEN IF left.val[1].v.name = right.val[1].v.name
                               THEN {"Equal"}
                               ELSE {"NotEqual"}
                          ELSE IF left.val[1].v = right.val[1].v
                               THEN {"Equal"}
                               ELSE {"NotEqual"}
      [] left.k = "NodeList" -> {"NotEqual"}
      [] left.k = "Boolean" ->
           IF right.k = "Boolean" /\ left.val = right.val THEN {"Equal"} ELSE {"NotEqual"}
      [] left.k = "Number" ->
           IF right.k # "Number"
           THEN {"NotEqual"}
           ELSE IF left.val = right.val
                THEN {"Equal", "GreaterThanOrEqual", "LessThanOrEqual"}
                ELSE {"NotEqual"}
                     \cup (IF left.val > right.val THEN {"GreaterThan", "GreaterThanOrEqual"} ELSE {})
                     \cup (IF left.val < right.val THEN {"LessThan", "LessThanOrEqual"} ELSE {})

\* Commands::Compare
EvalCompare(g, toks, rule, cc, st) ==
    IF rule.cmd.a \notin DOMAIN st.node.variables
    THEN Failed(PErr(<<"VariableNotFound", rule.cmd.a>>, st.cursor.idx, <<st.node>>), st)
    ELSE IF rule.cmd.b \notin DOMAIN st.node.variables
         THEN Failed(PErr(<<"VariableNotFound", rule.cmd.b>>, st.cursor.idx, <<st.node>>), st)
         ELSE IF rule.cmd.op \in Comparisons(st.node.variables[rule.cmd.a],
                                            st.node.variables[rule.cmd.b])
              THEN RunRules(g, toks, "Compare", "compare", rule.rules, cc, st)
              ELSE Done(st, <<>>)

\* Rule::Command
EvalCommand(g, toks, rule, cc, st) ==
    CASE rule.cmd.c = "Compare" -> EvalCompare(g, toks, rule, cc, st)
      [] rule.cmd.c = "Error" ->
           Failed(PErr(<<"Message", rule.cmd.a>>, st.cursor.idx, <<st.node>>), st)
      [] rule.cmd.c = "HardError" -> Done([st EXCEPT !.node.harderror = rule.cmd.set], <<>>)
      [] rule.cmd.c = "Goto" -> Done(st, <<MsgGoto(rule.cmd.a)>>)
      [] OTHER -> Done(st, <<>>)

\* `match rule { .. }` of parse_rules
EvalRule(g, toks, rule, cc, st) ==
    CASE rule.r = "Is" -> EvalIs(g, toks, rule, cc, st)
      [] rule.r = "Isnt" -> EvalIsnt(g, toks, rule, cc, st)
      [] rule.r = "IsOneOf" -> EvalIsOneOf(g, toks, rule, cc, st)
      [] rule.r = "Maybe" -> EvalMaybe(g, toks, rule, cc, st)
      [] rule.r = "MaybeOneOf" -> EvalMaybeOneOf(g, toks, rule, cc, st)
      [] rule.r = "While" -> EvalWhile(g, toks, rule, cc, st)
      [] rule.r = "Until" -> EvalUntil(g, toks, rule, cc, st)
      [] rule.r = "Command" -> EvalCommand(g, toks, rule, cc, st)
      [] rule.r = "Loop" -> EvalLoop(g, toks, rule, cc, st)
      [] rule.r = "UntilOneOf" -> EvalUntilOneOf(g, toks, rule, cc, st)

\* a search that finds no label
NoLabel(rules, label, j) == Len(rules)

\* the index of the first Label command named label in rules, or
\* Len(rules) when there is none (`if j >= rules.len()`)
RECURSIVE FindLabel(_, _, _)
FindLabel(rules, label, j) ==
    IF j >= Len(rules)
    THEN j
    ELSE IF rules[j + 1].r = "Command" /\ rules[j + 1].cmd.c = "Label"
            /\ rules[j + 1].cmd.a = label
         THEN j
         ELSE FindLabel(rules, label, j + 1)

\* a loop that leaves the messages of its bus unread
Undrained(rules, i, bus) == [ret |-> FALSE, msg |-> MsgOk, i |-> i]

\* a loop for which every Break is a Break(1), and that reads nothing else
BreakOnce(rules, i, bus) ==
    IF \E k \in DOMAIN bus : bus[k].m = "Break"
    THEN [ret |-> TRUE, msg |-> MsgOk, i |-> i]
    ELSE [ret |-> FALSE, msg |-> MsgOk, i |-> i]

\* `while let Some(msg) = msg_bus.receive() { .. }`: the bus is popped from
\* its end; ret says that parse_rules returns msg, otherwise i is the next rule
RECURSIVE Drain(_, _, _)
Drain(rules, i, bus) ==
    IF bus = <<>>
    THEN [ret |-> FALSE, msg |-> MsgOk, i |-> i]
    ELSE LET msg == bus[Len(bus)]
             rest == SubSeq(bus, 1, Len(bus) - 1)
         IN  CASE msg.m = "Return" -> [ret |-> TRUE, msg |-> MsgReturn, i |-> i]
               [] msg.m = "Break" ->
                    [ret |-> TRUE, msg |-> IF msg.n = 1 THEN MsgOk ELSE MsgBreak(msg.n - 1), i |-> i]
               [] msg.m = "Goto" ->
                    LET j == FindLabel(rules, msg.label, 0)
                    IN  IF j >= Len(rules)
                        THEN [ret |-> TRUE, msg |-> msg, i |-> i]
                        ELSE Drain(rules, j, rest)
               [] msg.m = "Back" ->
                    IF i < msg.n
                    THEN [ret |-> TRUE, msg |-> MsgBack(msg.n - i), i |-> i]
                    ELSE Drain(rules, i - msg.n, rest)
               [] msg.m = "Ok" -> Drain(rules, i, rest)

\* a loop that never makes the pending advance
NeverAdvanced(st) == st

\* `if cursor.to_advance { cursor.to_advance = false; cursor.idx += 1; }`
ApplyAdvance(st) ==
    IF st.cursor.to_advance
    THEN [st EXCEPT !.cursor = Cursor(@.idx + 1, FALSE)]
    ELSE st

\* a rule that returned Err from parse_rules, recorded in the trace
RuleFailed(rule, i, before, err, st) ==
    RulesFailed(err, Log(st, Ev("fail", st, rule.r, i, "", before, err)))

\* the start of one turn of the loop, recorded in the trace
RuleStarted(rule, i, st) ==
    Log([st EXCEPT !.steps = @ - 1], Ev("rule", st, rule.r, i, "", st.cursor, rule))

\* the messages rule i left on the bus, oldest first, and what receiving
\* them gave, recorded in the trace when one of them is not Msg::Ok
Drained(rules, i, bus, d, st) ==
    IF \A k \in DOMAIN bus : bus[k].m = "Ok"
    THEN st
    ELSE Log(st, Ev("drain", st, rules[i + 1].r, i, IF d.ret THEN d.msg.m ELSE "Next",
                    st.cursor, [bus |-> bus, msg |-> d.msg, next |-> d.i, rules |-> rules]))

\* the loop after the bus was drained: return the message or go on at d.i
AfterDrain(g, toks, rules, cc, i, bus, st, d) ==
    IF d.ret
    THEN RulesOk(d.msg, Drained(rules, i, bus, d, st))
    ELSE RulesLoop(g, toks, rules, cc, d.i, Drained(rules, i, bus, d, st))

\* the loop after `match rule { .. }` gave r
AfterRule(g, toks, rules, cc, i, before, r) ==
    IF ~r.ok
    THEN RuleFailed(rules[i + 1], i, before, r.err, r.st)
    ELSE AfterDrain(g, toks, rules, cc, i, r.bus, r.st,
                    Drain(rules, IF r.advance THEN i + 1 ELSE i, r.bus))

\* one turn of the loop on the state st1, the pending advance applied
RuleTurn(g, toks, rules, cc, i, st, st1) ==
    IF st.cursor.to_advance /\ st1.cursor.idx >= Len(toks)
    THEN RuleFailed(rules[i + 1], i, st.cursor,
                    PErr(<<"Eof">>, st1.cursor.idx - 1, <<st1.node>>), st1)
    ELSE AfterRule(g, toks, rules, cc, i, st.cursor,
                   EvalRule(g, toks, rules[i + 1], cc, st1))

\* `while i < rules.len() { .. }` of parse_rules, from rule i
RulesLoop(g, toks, rules, cc, i, st) ==
    IF i >= Len(rules)
    THEN RulesOk(MsgOk, st)
    ELSE IF st.steps = 0
    THEN RulesFailed(Abandoned, st)
    ELSE RuleTurn(g, toks, rules, cc, i, st, ApplyAdvance(RuleStarted(rules[i + 1], i, st)))

\* the return of parse_rules, recorded in the trace
RulesEnded(st, r) ==
    [r EXCEPT !.st = [Log(r.st, Ev("end", r.st, "", 0,
                                   IF r.ok THEN r.msg.m ELSE "Err", st.cursor, <<>>))
                      EXCEPT !.depth = st.depth]]

\* Parser::parse_rules
ParseRules(g, toks, rules, cc, st) ==
    RulesEnded(st, RulesLoop(g, toks, rules, cc, 0, [st EXCEPT !.depth = @ + 1]))

(***************************************************************************)
(* Parser::parse.                                                          *)
(***************************************************************************)
\* `while cursor.idx < tokens.len() && tokens[cursor.idx].kind.is_whitespace()`
EofSkip(toks, idx) == SkipWhitespace(toks, idx)

\* what parse returns: Ok(ParseResult{entry, globals}) or Err(ParseError);
\* exit is the cursor the entry node left, trace what the interpreter did
\* (both kept for the analysis only)
ParseOk(node, st) ==
    [ok |-> TRUE, err |-> NoErr, entry |-> node, globals |-> st.globals,
     exit |-> st.cursor, trace |-> st.log]
ParseFailed(err, node, st) ==
    [ok |-> FALSE, err |-> err, entry |-> node, globals |-> st.globals,
     exit |-> st.cursor, trace |-> st.log]

\* `if let TokenKinds::Control(Eof) = tokens[cursor.idx].kind { node } else
\* { return Err(MissingEof) }`, with j the index after the whitespace skip
ExpectEof(toks, j, r) ==
    IF j >= Len(toks)
    THEN ParseFailed(Panic(j), r.node, r.st)
    ELSE IF TokAt(toks, j).kind = KEof
         THEN ParseOk(r.node, r.st)
         ELSE ParseFailed(PErr(<<"MissingEof", TokAt(toks, j).kind>>, j, <<r.node>>),
                          r.node, r.st)

\* `match self.parse_node(..) { Ok(node) => .., Err((err, _)) => .. }`
AfterEntry(p, toks, r) ==
    IF ~r.ok
    THEN ParseFailed(r.err, r.node, r.st)
    ELSE IF ~p.grammar.eof
         THEN ParseOk(r.node, r.st)
         ELSE ExpectEof(toks, EofSkip(toks, r.st.cursor.idx), r)

\* Parser::parse of lib.rs, which calls parser::Parser::parse
ParseTokens(p, toks) ==
    AfterEntry(p, toks, ParseNode(p.grammar, toks, p.entry, NewState(p.grammar)))

\* a parse whose globals would be those the call before it left
CarriedGlobals(grammar, earlier) ==
    IF earlier = <<>>
    THEN VariablesFromGrammar(grammar.globals)
    ELSE earlier[Len(earlier)].globals

\* `let mut globals = Node::variables_from_grammar(&grammar.globals)?`: a
\* local of each call of parse, built from the grammar; earlier are the
\* results of the calls made before on the same Parser, which parse(&self)
\* neither keeps nor reads
Globals(grammar, earlier) == VariablesFromGrammar(grammar.globals)

\* Parser::parse called again on the same Parser, after the calls that
\* returned earlier
ParseTokensAfter(p, toks, earlier) ==
    AfterEntry(p, toks,
               ParseNode(p.grammar, toks, p.entry,
                         [NewState(p.grammar) EXCEPT !.globals = Globals(p.grammar, earlier)]))

(***************************************************************************)
(* The inputs of the model: grammars written with the constructors above,  *)
(* and the token streams of every text of at most MaxToks lexemes.         *)
(***************************************************************************)
\* a Map<String, _> from a sequence of named items, and from <<name, value>> pairs
MapOf(items) ==
    [n \in {items[i].name : i \in DOMAIN items} |->
        items[CHOOSE i \in DOMAIN items : items[i].name = n]]
Vars(pairs) ==
    [n \in {pairs[i][1] : i \in DOMAIN pairs} |->
        pairs[CHOOSE i \in DOMAIN pairs : pairs[i][1] = n][2]]

\* the lexemes the texts are made of, and the literals the lexer declares
Lexemes == {"let", "a", "+", " ", "\n"}
TokenLiterals == <<"+", "-", ";", "=">>

\* an alternative and a rule with no nested rules and no parameters
Alt(token) == OneOf(token, <<>>, <<>>)
AltP(token, parameters) == OneOf(token, <<>>, parameters)

\* a node that turns its hard-error flag on once `let` is matched, a node that
\* never does, and the rules that can enclose them
HardNodes ==
    <<GNode("C", <<Is(MTWord("let"), <<>>, <<PHardError(TRUE)>>),
                   Is(MTToken(KTok("+")), <<>>, <<>>)>>, EmptyMap),
      GNode("D", <<Is(MTWord("let"), <<>>, <<>>),
                   Is(MTToken(KTok("+")), <<>>, <<>>)>>, EmptyMap),
      GNode("B", <<Is(MTNode("C"), <<>>, <<PSet("c")>>)>>, Vars(<<<<"c", "Node">>>>)),
      GNode("maybe", <<Maybe(MTNode("C"), <<>>, <<>>, <<PSet("n")>>),
                       Is(MTAny, <<>>, <<PTrue("after")>>)>>,
            Vars(<<<<"n", "Node">>, <<"after", "Boolean">>>>)),
      GNode("maybe_one_of", <<MaybeOneOf(<<AltP(MTNode("C"), <<PSet("n")>>),
                                           AltP(MTWord("let"), <<PSet("n")>>)>>, <<>>),
                              Is(MTAny, <<>>, <<PTrue("after")>>)>>,
            Vars(<<<<"n", "Node">>, <<"after", "Boolean">>>>)),
      GNode("is_one_of", <<IsOneOf(<<AltP(MTNode("C"), <<PSet("n")>>),
                                     AltP(MTWord("let"), <<PSet("n")>>),
                                     AltP(MTWord("a"), <<PSet("n")>>)>>)>>,
            Vars(<<<<"n", "Node">>>>)),
      GNode("while", <<While(MTNode("C"), <<>>, <<PSet("l")>>),
                       Is(MTAny, <<>>, <<PTrue("after")>>)>>,
            Vars(<<<<"l", "NodeList">>, <<"after", "Boolean">>>>)),
      GNode("enumerator", <<Maybe(MTEnumerator("hard_or_a"), <<>>, <<>>, <<PSet("n")>>),
                            Is(MTAny, <<>>, <<PTrue("after")>>)>>,
            Vars(<<<<"n", "Node">>, <<"after", "Boolean">>>>)),
      GNode("soft", <<Maybe(MTNode("D"), <<>>, <<>>, <<PSet("n")>>),
                      Is(MTAny, <<>>, <<PTrue("after")>>)>>,
            Vars(<<<<"n", "Node">>, <<"after", "Boolean">>>>)),
      GNode("deep", <<Maybe(MTNode("B"), <<>>, <<Is(MTAny, <<>>, <<PTrue("after")>>)>>,
                            <<PSet("n")>>)>>,
            Vars(<<<<"n", "Node">>, <<"after", "Boolean">>>>))>>
HardEnumerators ==
    <<GEnum("hard_or_a", <<MTNode("C"), MTWord("a")>>)>>
HardGrammar == MkGrammar(MapOf(HardNodes), MapOf(HardEnumerators), EmptyMap, FALSE)
HardEntries == {"maybe", "maybe_one_of", "is_one_of", "while", "enumerator", "soft", "deep"}

\* rules over tokens and words: optional rules, alternatives, repetition
TokenNodes ==
    <<GNode("maybe", <<Maybe(MTToken(KTok("+")), <<Is(MTAny, <<>>, <<PSet("is")>>)>>,
                             <<Is(MTAny, <<>>, <<PSet("isnt")>>)>>, <<PSet("n")>>),
                       Is(MTAny, <<>>, <<PTrue("after")>>)>>,
            Vars(<<<<"n", "Node">>, <<"is", "Node">>, <<"isnt", "Node">>, <<"after", "Boolean">>>>)),
      GNode("maybe_one_of", <<MaybeOneOf(<<AltP(MTWord("let"), <<PSet("n")>>),
                                           AltP(MTEnumerator("operators"), <<PSet("n")>>)>>,
                                         <<Maybe(MTWord("a"), <<>>, <<>>, <<PSet("isnt")>>)>>),
                              Is(MTAny, <<>>, <<PTrue("after")>>)>>,
            Vars(<<<<"n", "Node">>, <<"isnt", "Node">>, <<"after", "Boolean">>>>)),
      GNode("is_one_of", <<IsOneOf(<<OneOf(MTWord("let"), <<Is(MTWord("a"), <<>>, <<PSet("n")>>)>>,
                                           <<PIncrement("first")>>),
                                     AltP(MTNode("value"), <<PIncrement("second")>>),
                                     AltP(MTToken(KTok("+")), <<PIncrement("third")>>)>>),
                           Maybe(MTToken(KTok("+")), <<>>, <<>>, <<PSet("n")>>)>>,
            Vars(<<<<"n", "Node">>, <<"first", "Number">>, <<"second", "Number">>,
                   <<"third", "Number">>>>)),
      GNode("value", <<Is(MTWord("a"), <<>>, <<PNodeStart, PNodeEnd>>)>>, EmptyMap),
      GNode("while", <<While(MTToken(KTok("+")), <<Maybe(MTWord("a"), <<>>, <<>>, <<PSet("last")>>)>>,
                             <<PIncrement("c"), PSet("l")>>),
                       Is(MTAny, <<>>, <<PTrue("after")>>)>>,
            Vars(<<<<"c", "Number">>, <<"l", "NodeList">>, <<"last", "Node">>,
                   <<"after", "Boolean">>>>)),
      GNode("while_node", <<While(MTNode("value"), <<>>, <<PIncrement("c"), PSet("l")>>),
                            Maybe(MTWord("let"), <<>>, <<>>, <<PTrue("after")>>)>>,
            Vars(<<<<"c", "Number">>, <<"l", "NodeList">>, <<"after", "Boolean">>>>)),
      GNode("is", <<Is(MTWord("let"), <<>>, <<>>)>>, EmptyMap),
      GNode("is_is", <<Is(MTWord("let"), <<>>, <<>>), Is(MTWord("a"), <<>>, <<>>)>>, EmptyMap),
      GNode("until", <<Until(MTToken(KTok("+")), <<>>, <<PSet("n")>>),
                       UntilOneOf(<<AltP(MTWord("a"), <<PSet("n")>>),
                                    AltP(MTToken(KEof), <<PSet("n")>>)>>)>>,
            Vars(<<<<"n", "Node">>>>)),
      GNode("isnt", <<Isnt(MTWord("let"), <<Is(MTAny, <<>>, <<PSet("n")>>)>>, <<>>),
                      Loop(<<Maybe(MTWord("a"), <<>>, <<Is(MTAny, <<>>, <<PBreak(3)>>)>>,
                                   <<PIncrement("c")>>)>>)>>,
            Vars(<<<<"n", "Node">>, <<"c", "Number">>>>))>>
TokenEnumerators ==
    <<GEnum("operators", <<MTToken(KTok("+")), MTToken(KTok("-"))>>)>>
TokenGrammar(eof) == MkGrammar(MapOf(TokenNodes), MapOf(TokenEnumerators), EmptyMap, eof)
TokenEntries == {"maybe", "maybe_one_of", "is_one_of", "while", "while_node", "is", "is_is",
                 "until", "isnt"}

\* Goto and Label: a label in the list of the Goto, in an enclosing list,
\* and in a nested list that does not enclose the Goto
LabelNodes ==
    <<GNode("same_list", <<Maybe(MTWord("let"), <<>>, <<>>, <<PGoto("end")>>),
                           Is(MTWord("a"), <<>>, <<PSet("n")>>),
                           CmdLabel("end")>>,
            Vars(<<<<"n", "Node">>>>)),
      GNode("enclosing_list", <<Maybe(MTWord("let"), <<CmdGoto("end")>>, <<>>, <<>>),
                                Is(MTWord("a"), <<>>, <<PSet("n")>>),
                                CmdLabel("end")>>,
            Vars(<<<<"n", "Node">>>>)),
      GNode("nested_list", <<Maybe(MTWord("let"), <<CmdLabel("inner")>>, <<>>, <<>>),
                             Maybe(MTWord("a"), <<>>, <<>>, <<PSet("n")>>),
                             CmdGoto("inner")>>,
            Vars(<<<<"n", "Node">>>>))>>
LabelGrammar == MkGrammar(MapOf(LabelNodes), EmptyMap, EmptyMap, FALSE)
LabelEntries == {"same_list", "enclosing_list", "nested_list"}

\* tests::string of lib.rs, with `+` standing for the quote: Compare on the
\* variables count and zero the entry node declares
StringNodes ==
    <<GNode("string", <<Is(MTToken(KTok("+")), <<>>, <<PSet("start"), PNodeStart>>),
                        Until(MTToken(KTok("+")), <<>>, <<PSet("end"), PNodeEnd>>)>>,
            Vars(<<<<"start", "Node">>, <<"end", "Node">>>>)),
      GNode("entry", <<While(MTNode("string"), <<>>, <<PSet("strings"), PIncrement("count")>>),
                       CmdCompare("count", "zero", "Equal", <<CmdError("No strings found")>>)>>,
            Vars(<<<<"strings", "NodeList">>, <<"count", "Number">>, <<"zero", "Number">>>>))>>
StringGrammar == MkGrammar(MapOf(StringNodes), EmptyMap, EmptyMap, FALSE)

\* Compare on two Number globals, which the entry node does not declare
GlobalCompareNodes ==
    <<GNode("entry", <<Maybe(MTWord("let"), <<>>, <<>>, <<PIncrementGlobal("count")>>),
                       CmdCompare("count", "zero", "Equal", <<CmdError("No let found")>>)>>,
            EmptyMap)>>
GlobalCompareGrammar ==
    MkGrammar(MapOf(GlobalCompareNodes), EmptyMap,
              Vars(<<<<"count", "Number">>, <<"zero", "Number">>>>), FALSE)

\* names: an enumerator whose values name an enumerator and a node that do
\* not exist; Grammar::new() has no node at all
NameNodes ==
    <<GNode("entry", <<Is(MTEnumerator("keywords"), <<>>, <<PSet("n")>>)>>,
            Vars(<<<<"n", "Node">>>>)),
      GNode("node_value", <<Is(MTEnumerator("values"), <<>>, <<PSet("n")>>)>>,
            Vars(<<<<"n", "Node">>>>))>>
NameEnumerators ==
    <<GEnum("keywords", <<MTWord("let"), MTEnumerator("operators")>>),
      GEnum("values", <<MTWord("let"), MTNode("value")>>)>>
NameGrammar == MkGrammar(MapOf(NameNodes), MapOf(NameEnumerators), EmptyMap, FALSE)
NewGrammar == MkGrammar(EmptyMap, EmptyMap, EmptyMap, FALSE)

\* the Parser aggregates of the model
Parsers ==
    {MkParser(TokenLiterals, HardGrammar, e) : e \in HardEntries}
    \cup {MkParser(TokenLiterals, TokenGrammar(eof), e) : eof \in BOOLEAN, e \in TokenEntries}
    \cup {MkParser(TokenLiterals, LabelGrammar, e) : e \in LabelEntries}
    \cup {MkParser(TokenLiterals, g, DEFAULT_ENTRY) :
             g \in {StringGrammar, GlobalCompareGrammar, NameGrammar, NewGrammar}}
    \cup {MkParser(TokenLiterals, NameGrammar, "node_value"),
          MkParser(TokenLiterals, LabelGrammar, "program")}

\* every text of at most n lexemes in which no space follows a space
Texts(n) ==
    {text \in UNION {[1..k -> Lexemes] : k \in 0..n} :
        \A i \in 1..(Len(text) - 1) : ~(text[i] = " " /\ text[i + 1] = " ")}

(***************************************************************************)
(* The state machine: a Parser aggregate, a text and its tokens are given;  *)
(* validate() and parse() are called on them, in any order.  validation    *)
(* and result are <<>> before the call and <<value>> after it.             *)
(***************************************************************************)
Init ==
    /\ parser \in Parsers
    /\ txt \in Texts(MaxToks)
    /\ tokens = MkTokens(txt, 0)
    /\ validation = <<>>
    /\ result = <<>>

\* Grammar::validate, called as parser.grammar.validate(&parser.lexer)
Validate ==
    /\ validation = <<>>
    /\ validation' = <<ValidateGrammar(parser)>>
    /\ UNCHANGED <<parser, txt, tokens, result>>

\* Parser::parse (self.parser.parse(&self.grammar, &self.lexer, text, tokens))
Parse ==
    /\ result = <<>>
    /\ result' = <<ParseTokens(parser, tokens)>>
    /\ UNCHANGED <<parser, txt, tokens, validation>>

Next == Validate \/ Parse

Spec == Init /\ [][Next]_vars

Validated == validation # <<>>
Parsed == result # <<>>

(***************************************************************************)
(* A second set of inputs, for the agreement of validate_parameters with   *)
(* parse_parameters: one rule applying one parameter to the variable v,    *)
(* for every parameter that names a variable, every declaration of v on    *)
(* the node and in the globals (none, or one of the four kinds), and four  *)
(* kinds of rule.                                                          *)
(***************************************************************************)
VariableParameters ==
    {"Set", "Global", "Increment", "Decrement", "IncrementGlobal",
     "True", "False", "TrueGlobal", "FalseGlobal"}
Declarations == {"", "Node", "NodeList", "Boolean", "Number"}
KindRules == {"Is", "Maybe", "IsOneOf", "While"}

Declared(kind) == IF kind = "" THEN EmptyMap ELSE Vars(<<<<"v", kind>>>>)

KindRule(r, parameters) ==
    CASE r = "Is" -> Is(MTAny, <<>>, parameters)
      [] r = "Maybe" -> Maybe(MTAny, <<>>, <<>>, parameters)
      [] r = "IsOneOf" -> IsOneOf(<<AltP(MTAny, parameters)>>)
      [] r = "While" -> While(MTAny, <<>>, parameters)

KindGrammar(par, on_node, in_globals, r) ==
    MkGrammar(MapOf(<<GNode("entry",
                            <<KindRule(r, <<[p |-> par, v |-> "v", n |-> 0, b |-> FALSE]>>)>>,
                            Declared(on_node))>>),
              EmptyMap, Declared(in_globals), FALSE)

KindParsers ==
    {MkParser(TokenLiterals, KindGrammar(par, on_node, in_globals, r), DEFAULT_ENTRY) :
        par \in VariableParameters, on_node \in Declarations,
        in_globals \in Declarations, r \in KindRules}

InitV ==
    /\ parser \in KindParsers
    /\ txt \in Texts(MaxToksV)
    /\ tokens = MkTokens(txt, 0)
    /\ validation = <<>>
    /\ result = <<>>

SpecV == InitV /\ [][Next]_vars

(***************************************************************************)
(* A third set of inputs, for the rules that scan and collect: Until and   *)
(* UntilOneOf, NodeList variables, enumerators, and the four kinds of      *)
(* target whose value a parameter stores.  The texts are over `a`, `+`,    *)
(* `;` and the space.                                                      *)
(***************************************************************************)
MaxToksS == 4

ScanLexemes == {"a", "+", ";", " "}

ScanTexts(n) ==
    {text \in UNION {[1..k -> ScanLexemes] : k \in 0..n} :
        \A i \in 1..(Len(text) - 1) : ~(text[i] = " " /\ text[i + 1] = " ")}

ScanNodes ==
    <<\* the node `value` of tests::rules in lib.rs
      GNode("value", <<Is(MTToken(KText), <<>>, <<PSet("nodes")>>),
                       While(MTEnumerator("operators"),
                             <<Is(MTToken(KText), <<>>, <<PSet("nodes")>>)>>,
                             <<PSet("nodes")>>)>>,
            Vars(<<<<"nodes", "NodeList">>>>)),
      GNode("twice", <<While(MTToken(KText), <<>>, <<PSet("nodes"), PSet("nodes")>>),
                       Maybe(MTToken(KTok("+")), <<>>, <<>>, <<PSet("nodes")>>)>>,
            Vars(<<<<"nodes", "NodeList">>>>)),
      GNode("item", <<Is(MTToken(KText), <<>>, <<PSet("t")>>),
                      Maybe(MTToken(KTok("+")), <<>>, <<>>, <<PSet("t")>>)>>,
            Vars(<<<<"t", "Node">>>>)),
      GNode("items", <<While(MTNode("item"), <<>>, <<PSet("nodes")>>),
                       Maybe(MTToken(KTok(";")), <<>>, <<>>, <<PSet("nodes")>>)>>,
            Vars(<<<<"nodes", "NodeList">>>>)),
      GNode("hard", <<Is(MTToken(KTok("+")), <<>>, <<PHardError(TRUE)>>),
                      Is(MTToken(KTok(";")), <<>>, <<>>)>>, EmptyMap),
      GNode("until", <<Until(MTToken(KTok(";")), <<Maybe(MTWord("a"), <<>>, <<>>, <<PSet("after")>>)>>,
                             <<PSet("n")>>)>>,
            Vars(<<<<"n", "Node">>, <<"after", "Node">>>>)),
      GNode("until_word", <<Maybe(MTToken(KTok("+")), <<>>, <<>>, <<>>),
                            Until(MTWord("a"), <<>>, <<PSet("n")>>)>>,
            Vars(<<<<"n", "Node">>>>)),
      GNode("until_node", <<Until(MTNode("item"), <<>>, <<PSet("n")>>)>>,
            Vars(<<<<"n", "Node">>>>)),
      GNode("until_hard", <<Until(MTNode("hard"), <<>>, <<PSet("n")>>)>>,
            Vars(<<<<"n", "Node">>>>)),
      GNode("until_one_of", <<UntilOneOf(<<AltP(MTWord("a"), <<PSet("n")>>),
                                           AltP(MTToken(KTok(";")), <<PSet("n")>>)>>)>>,
            Vars(<<<<"n", "Node">>>>)),
      GNode("enumerator", <<Is(MTEnumerator("operators"), <<>>, <<PSet("n")>>)>>,
            Vars(<<<<"n", "Node">>>>)),
      GNode("token", <<Is(MTToken(KTok("+")), <<>>, <<PSet("n"), PGlobal("all")>>),
                       Maybe(MTToken(KText), <<>>, <<>>, <<PSet("n"), PGlobal("all")>>)>>,
            Vars(<<<<"n", "Node">>>>)),
      GNode("word", <<Is(MTWord("a"), <<>>, <<PSet("n"), PGlobal("all")>>)>>,
            Vars(<<<<"n", "Node">>>>)),
      GNode("any", <<Is(MTAny, <<>>, <<PSet("n"), PGlobal("all")>>)>>,
            Vars(<<<<"n", "Node">>>>))>>
ScanEnumerators ==
    <<GEnum("operators", <<MTToken(KTok("+")), MTToken(KTok("-"))>>)>>
ScanGrammar ==
    MkGrammar(MapOf(ScanNodes), MapOf(ScanEnumerators), Vars(<<<<"all", "NodeList">>>>), FALSE)
ScanEntries ==
    {"value", "twice", "items", "until", "until_word", "until_node", "until_hard",
     "until_one_of", "enumerator", "token", "word", "any"}

ScanParsers == {MkParser(TokenLiterals, ScanGrammar, e) : e \in ScanEntries}

InitS ==
    /\ parser \in ScanParsers
    /\ txt \in ScanTexts(MaxToksS)
    /\ tokens = MkTokens(txt, 0)
    /\ validation = <<>>
    /\ result = <<>>

SpecS == InitS /\ [][Next]_vars

(***************************************************************************)
(* A fifth set of inputs, for the byte range of a node: statements whose   *)
(* `value` child ends with a token match, with a While that missed or with *)
(* a Maybe that missed, as the node `value` of tests::load_json does on    *)
(* `let a: int = 500 * 9;`.  The texts are over `let`, `+`, `;` and the    *)
(* space, so that byte offsets differ from token indexes.                  *)
(***************************************************************************)
MaxToksR == 5

RangeLexemes == {"let", "+", ";", " "}

RangeTexts(n) ==
    {text \in UNION {[1..k -> RangeLexemes] : k \in 0..n} :
        \A i \in 1..(Len(text) - 1) : ~(text[i] = " " /\ text[i + 1] = " ")}

Statement(name, value) ==
    GNode(name, <<Maybe(MTToken(KTok("+")), <<>>, <<>>, <<>>),
                  Is(MTNode(value), <<>>, <<PSet("value")>>),
                  Maybe(MTToken(KTok(";")), <<>>, <<>>, <<PSet("end")>>)>>,
          Vars(<<<<"value", "Node">>, <<"end", "Node">>>>))

RangeNodes ==
    <<GNode("value_token", <<Is(MTWord("let"), <<>>, <<>>)>>, EmptyMap),
      GNode("value_while", <<Is(MTWord("let"), <<>>, <<>>),
                             While(MTToken(KTok("+")), <<Is(MTWord("let"), <<>>, <<>>)>>, <<>>)>>,
            EmptyMap),
      GNode("value_maybe", <<Is(MTWord("let"), <<>>, <<>>),
                             Maybe(MTToken(KTok("+")), <<>>, <<>>, <<>>)>>, EmptyMap),
      Statement("by_token", "value_token"),
      Statement("by_while", "value_while"),
      Statement("by_maybe", "value_maybe")>>

RangeGrammar == MkGrammar(MapOf(RangeNodes), EmptyMap, EmptyMap, FALSE)

RangeEntries == {"by_token", "by_while", "by_maybe"}

\* with them, the strings of tests::string
RangeParsers ==
    {MkParser(TokenLiterals, RangeGrammar, e) : e \in RangeEntries}
        \cup {MkParser(TokenLiterals, StringGrammar, "entry")}

InitR ==
    /\ parser \in RangeParsers
    /\ txt \in RangeTexts(MaxToksR)
    /\ tokens = MkTokens(txt, 0)
    /\ validation = <<>>
    /\ result = <<>>

SpecR == InitR /\ [][Next]_vars

(***************************************************************************)
(* A sixth set of inputs, for two calls of parse on the same Parser: the   *)
(* grammars whose rules write globals, and the messages.  result is <<>>,  *)
(* then <<first>>, then <<first, second>>.                                 *)
(***************************************************************************)
MaxToksD == 3

AgainParsers ==
    ScanParsers
        \cup {MkParser(TokenLiterals, g, DEFAULT_ENTRY) : g \in {StringGrammar, GlobalCompareGrammar}}
        \cup {MkParser(TokenLiterals, HardGrammar, e) : e \in HardEntries}

InitD ==
    /\ parser \in AgainParsers
    /\ txt \in Texts(MaxToksD)
    /\ tokens = MkTokens(txt, 0)
    /\ validation = <<>>
    /\ result = <<>>

\* the second call of Parser::parse with the same arguments
ParseAgain ==
    /\ Len(result) = 1
    /\ result' = Append(result, ParseTokensAfter(parser, tokens, result))
    /\ UNCHANGED <<parser, txt, tokens, validation>>

NextD == Validate \/ Parse \/ ParseAgain

SpecD == InitD /\ [][NextD]_vars

(***************************************************************************)
(* A seventh set of inputs, for the validator: grammars that use one of    *)
(* the things the validator warns about, at the top of a node and nested   *)
(* in each kind of rule.                                                   *)
(***************************************************************************)
MaxToksW == 1

WarnFeatures ==
    {"None", "Any", "AnyAlt", "Back", "BackAlt", "PrintParameter", "PrintCommand",
     "Debug", "DebugVariable", "Label"}

FeatureRule(f) ==
    CASE f = "None" -> Maybe(MTWord("let"), <<>>, <<>>, <<>>)
      [] f = "Any" -> Maybe(MTAny, <<>>, <<>>, <<>>)
      [] f = "AnyAlt" -> MaybeOneOf(<<Alt(MTAny)>>, <<>>)
      [] f = "Back" -> Maybe(MTWord("let"), <<>>, <<>>, <<PBack(1)>>)
      [] f = "BackAlt" -> MaybeOneOf(<<AltP(MTWord("let"), <<PBack(1)>>)>>, <<>>)
      [] f = "PrintParameter" -> Maybe(MTWord("let"), <<>>, <<>>, <<PPrintStr("m")>>)
      [] f = "PrintCommand" -> CmdPrintMsg("m")
      [] f = "Debug" -> Maybe(MTWord("let"), <<>>, <<>>, <<PDebug("")>>)
      [] f = "DebugVariable" -> Maybe(MTWord("let"), <<>>, <<>>, <<PDebug("n")>>)
      [] f = "Label" -> CmdLabel("l")

WarnPositions ==
    {"top", "is", "isnt", "maybe_is", "maybe_isnt", "while", "loop", "until",
     "is_one_of", "maybe_one_of", "maybe_one_of_isnt", "until_one_of", "compare"}

Placed(pos, rule) ==
    CASE pos = "top" -> <<rule>>
      [] pos = "is" -> <<Is(MTWord("a"), <<rule>>, <<>>)>>
      [] pos = "isnt" -> <<Isnt(MTWord("a"), <<rule>>, <<>>)>>
      [] pos = "maybe_is" -> <<Maybe(MTWord("a"), <<rule>>, <<>>, <<>>)>>
      [] pos = "maybe_isnt" -> <<Maybe(MTWord("a"), <<>>, <<rule>>, <<>>)>>
      [] pos = "while" -> <<While(MTWord("a"), <<rule>>, <<>>)>>
      [] pos = "loop" -> <<Loop(<<rule, Is(MTWord("a"), <<>>, <<PBreak(1)>>)>>)>>
      [] pos = "until" -> <<Until(MTWord("a"), <<rule>>, <<>>)>>
      [] pos = "is_one_of" -> <<IsOneOf(<<OneOf(MTWord("a"), <<rule>>, <<>>)>>)>>
      [] pos = "maybe_one_of" -> <<MaybeOneOf(<<OneOf(MTWord("a"), <<rule>>, <<>>)>>, <<>>)>>
      [] pos = "maybe_one_of_isnt" -> <<MaybeOneOf(<<Alt(MTWord("a"))>>, <<rule>>)>>
      [] pos = "until_one_of" -> <<UntilOneOf(<<OneOf(MTWord("a"), <<rule>>, <<>>)>>)>>
      [] pos = "compare" -> <<CmdCompare("count", "zero", "Equal", <<rule>>)>>

WarnGrammar(f, pos) ==
    MkGrammar(MapOf(<<GNode("entry", Placed(pos, FeatureRule(f)), Vars(<<<<"n", "Node">>>>))>>),
              EmptyMap, Vars(<<<<"count", "Number">>, <<"zero", "Number">>>>), FALSE)

WarnParsers ==
    {MkParser(TokenLiterals, WarnGrammar(f, pos), DEFAULT_ENTRY) :
        f \in WarnFeatures, pos \in WarnPositions}

\* lexers that declare up to MaxLits literals, the empty one and repeated
\* ones among them, with a grammar that has nothing to report
MaxLits == 3

Literals == {"", "+", "let"}

LexerParsers ==
    {MkParser(lits, WarnGrammar("None", "top"), DEFAULT_ENTRY) :
        lits \in UNION {[1..k -> Literals] : k \in 0..MaxLits}}

\* grammars of two nodes, each with one of a few lists of Labels and Gotos
LabelLists ==
    {<<>>,
     <<CmdLabel("l")>>,
     <<CmdGoto("l")>>,
     <<CmdGoto("l"), CmdGoto("l")>>,
     <<CmdGoto("l"), CmdLabel("l")>>,
     <<CmdGoto("m"), CmdLabel("l")>>,
     <<CmdLabel("l"), CmdLabel("l")>>,
     <<CmdLabel("l"), Maybe(MTWord("a"), <<CmdLabel("l")>>, <<CmdLabel("l")>>, <<>>)>>,
     <<Maybe(MTWord("let"), <<>>, <<>>, <<PGoto("l")>>)>>,
     <<Maybe(MTWord("a"), <<CmdLabel("l")>>, <<>>, <<>>), CmdGoto("l")>>}

LabelNames == {"l", "m"}

TwoNodeGrammar(rules, others) ==
    MkGrammar(MapOf(<<GNode("entry", rules, EmptyMap), GNode("other", others, EmptyMap)>>),
              EmptyMap, EmptyMap, FALSE)

TwoNodeParsers ==
    {MkParser(TokenLiterals, TwoNodeGrammar(rules, others), DEFAULT_ENTRY) :
        rules \in LabelLists, others \in LabelLists}

ValidatorParsers == WarnParsers \cup LexerParsers \cup TwoNodeParsers

InitW ==
    /\ parser \in ValidatorParsers
    /\ txt \in Texts(MaxToksW)
    /\ tokens = MkTokens(txt, 0)
    /\ validation = <<>>
    /\ result = <<>>

SpecW == InitW /\ [][Next]_vars

(***************************************************************************)
(* An eighth set of inputs, for the scanner: the texts of at most MaxChars *)
(* characters, scanned by a lexer without literals, with one literal and   *)
(* with literals of which one begins another.  tokens is <<>> until the    *)
(* text is scanned.                                                        *)
(***************************************************************************)
MaxChars == 3

Chars == {"a", "+", "=", " ", "\t", "\n", "ú"}

CharTexts(n) == UNION {[1..k -> Chars] : k \in 0..n}

LiteralSets == {<<>>, <<"+">>, <<"+", "+=", "aa">>, <<"aa", "=", "+=">>}

ScannerParsers == {MkParser(lits, StringGrammar, DEFAULT_ENTRY) : lits \in LiteralSets}

InitL ==
    /\ parser \in ScannerParsers
    /\ txt \in CharTexts(MaxChars)
    /\ tokens = <<>>
    /\ validation = <<>>
    /\ result = <<>>

\* parser.lexer.lex_utf8(txt)
Lex ==
    /\ tokens = <<>>
    /\ tokens' = LexUtf8(parser.lexer, txt)
    /\ UNCHANGED <<parser, txt, validation, result>>

NextL == Lex \/ Validate \/ Parse

SpecL == InitL /\ [][NextL]_vars

(***************************************************************************)
(* A fourth set of inputs, for the control messages: rules that send       *)
(* Return, Break and Goto from rule lists nested up to MaxNest deep, alone *)
(* and two at a time, and parent nodes around the nodes that send them.    *)
(* A list is nested with Isnt(Token -), whose target no text contains; a   *)
(* Label command marks a rule that runs without reading a token.           *)
(***************************************************************************)
MaxNest == 3
MaxBreak == 4

Nested(rules) == Isnt(MTToken(KTok("-")), rules, <<>>)

\* the rules of the list at level d of a node that sends Break(n) from level k
RECURSIVE BreakRules(_, _, _)
BreakRules(k, n, d) ==
    IF d = k
    THEN <<Maybe(MTWord("let"), <<>>, <<>>, <<PBreak(n)>>), CmdLabel("after")>>
    ELSE <<Nested(BreakRules(k, n, d + 1)), CmdLabel("after")>>

BreakName(k, n) == "break_" \o ToString(k) \o "_" \o ToString(n)
BreakNodes ==
    {GNode(BreakName(k, n), BreakRules(k, n, 1), EmptyMap) : k \in 1..MaxNest, n \in 1..MaxBreak}

MsgNodes ==
    <<GNode("return_top", <<Maybe(MTWord("let"), <<>>, <<>>, <<PSet("n"), PReturn>>),
                            Maybe(MTAny, <<>>, <<>>, <<PTrue("after")>>)>>,
            Vars(<<<<"n", "Node">>, <<"after", "Boolean">>>>)),
      GNode("return_loop", <<Loop(<<Maybe(MTWord("let"), <<>>, <<>>, <<PReturn>>),
                                    Is(MTAny, <<>>, <<PSet("l")>>)>>),
                             Maybe(MTAny, <<>>, <<>>, <<PTrue("after")>>)>>,
            Vars(<<<<"l", "NodeList">>, <<"after", "Boolean">>>>)),
      GNode("return_parent", <<Is(MTNode("return_loop"), <<>>, <<PSet("child")>>),
                               Maybe(MTAny, <<>>, <<>>, <<PTrue("after")>>)>>,
            Vars(<<<<"child", "Node">>, <<"after", "Boolean">>>>)),
      GNode("return_break", <<Nested(<<Maybe(MTWord("let"), <<>>, <<>>, <<PReturn, PBreak(1)>>),
                                       CmdLabel("after")>>),
                              CmdLabel("after")>>, EmptyMap),
      GNode("break_parent", <<Maybe(MTNode(BreakName(1, 2)), <<>>, <<>>, <<PSet("child")>>),
                              Is(MTNode(BreakName(2, 2)), <<>>, <<PSet("child")>>),
                              CmdLabel("after")>>,
            Vars(<<<<"child", "Node">>>>)),
      GNode("break_loop", <<Loop(<<Maybe(MTWord("let"), <<>>, <<>>, <<PBreak(2)>>),
                                   Is(MTAny, <<>>, <<PSet("l")>>)>>),
                            CmdLabel("after")>>,
            Vars(<<<<"l", "NodeList">>>>)),
      GNode("break_return", <<Nested(<<Maybe(MTWord("let"), <<>>, <<>>, <<PBreak(1), PReturn>>),
                                       CmdLabel("after")>>),
                              CmdLabel("after")>>, EmptyMap),
      GNode("goto_forward", <<Maybe(MTWord("let"), <<>>, <<>>, <<PGoto("end")>>),
                              Maybe(MTWord("a"), <<>>, <<>>, <<PSet("n")>>),
                              CmdLabel("end"),
                              Maybe(MTAny, <<>>, <<>>, <<PTrue("after")>>)>>,
            Vars(<<<<"n", "Node">>, <<"after", "Boolean">>>>)),
      GNode("goto_backward", <<CmdLabel("start"),
                               Maybe(MTToken(KTok("+")), <<>>, <<>>, <<PSet("n")>>),
                               Maybe(MTWord("a"), <<>>, <<>>, <<PGoto("start")>>)>>,
            Vars(<<<<"n", "Node">>>>)),
      GNode("goto_enclosing", <<Nested(<<Nested(<<Maybe(MTWord("let"), <<>>, <<>>, <<PGoto("end")>>),
                                                  CmdLabel("skipped")>>),
                                         CmdLabel("skipped")>>),
                                Maybe(MTWord("a"), <<>>, <<>>, <<PSet("n")>>),
                                CmdLabel("end")>>,
            Vars(<<<<"n", "Node">>>>)),
      GNode("goto_missing", <<Nested(<<Maybe(MTWord("let"), <<>>, <<>>, <<PGoto("nowhere")>>)>>),
                              CmdLabel("after")>>, EmptyMap),
      GNode("goto_nested", <<Nested(<<CmdLabel("inner")>>),
                             Maybe(MTWord("let"), <<>>, <<>>, <<PGoto("inner")>>),
                             CmdLabel("after")>>, EmptyMap),
      GNode("goto_child", <<Maybe(MTWord("let"), <<>>, <<>>, <<PGoto("outer")>>),
                            CmdLabel("after")>>, EmptyMap),
      GNode("goto_parent", <<Maybe(MTNode("goto_child"), <<>>, <<>>, <<PSet("child")>>),
                             CmdLabel("between"),
                             CmdLabel("outer")>>,
            Vars(<<<<"child", "Node">>>>)),
      GNode("goto_return", <<Maybe(MTWord("let"), <<>>, <<>>, <<PGoto("end"), PReturn>>),
                             CmdLabel("middle"),
                             CmdLabel("end")>>, EmptyMap),
      GNode("two_gotos", <<Maybe(MTWord("let"), <<>>, <<>>, <<PGoto("a"), PGoto("b")>>),
                           CmdLabel("a"),
                           CmdLabel("b")>>, EmptyMap),
      GNode("nested_goto", <<Maybe(MTWord("let"), <<CmdGoto("b")>>, <<>>, <<PGoto("a")>>),
                             CmdLabel("a"),
                             CmdLabel("b")>>, EmptyMap),
      GNode("goto_break", <<Nested(<<Maybe(MTWord("let"), <<>>, <<>>, <<PGoto("a"), PBreak(1)>>),
                                     CmdLabel("a")>>),
                            CmdLabel("after")>>, EmptyMap)>>
MsgGrammar ==
    MkGrammar([n \in DOMAIN MapOf(MsgNodes) \cup {b.name : b \in BreakNodes} |->
                  IF n \in DOMAIN MapOf(MsgNodes)
                  THEN MapOf(MsgNodes)[n]
                  ELSE CHOOSE b \in BreakNodes : b.name = n],
              EmptyMap, EmptyMap, FALSE)
MsgEntries == DOMAIN MsgGrammar.nodes

MsgParsers == {MkParser(TokenLiterals, MsgGrammar, e) : e \in MsgEntries}

InitM ==
    /\ parser \in MsgParsers
    /\ txt \in Texts(MaxToks)
    /\ tokens = MkTokens(txt, 0)
    /\ validation = <<>>
    /\ result = <<>>

SpecM == InitM /\ [][Next]_vars

(***************************************************************************)
(* Serialization (serde derive on lib.rs::Parser and on every grammar      *)
(* type, serde_json::to_string and from_str).  A JSON value is a record    *)
(* with a kind j, the spelling s of a scalar, the items a of an array and  *)
(* the members o of an object.  Structs are objects, a variant with a      *)
(* payload is an object with the one member named after the variant, a     *)
(* variant without payload is its name as a string, None is null, vectors  *)
(* and tuples are arrays, maps are objects.                                *)
(***************************************************************************)
MaxNum == 255

JValue(j, s, a, o) == [j |-> j, s |-> s, a |-> a, o |-> o]
JNull == JValue("null", "", <<>>, <<>>)
JBool(b) == JValue("bool", IF b THEN "true" ELSE "false", <<>>, <<>>)
JNum(n) == JValue("num", ToString(n), <<>>, <<>>)
JStr(s) == JValue("str", s, <<>>, <<>>)
JArr(a) == JValue("arr", "", a, <<>>)
JObj(o) == JValue("obj", "", <<>>, o)
JVariant(name, payload) == JObj(name :> payload)

\* the variant an object or a string names, and its payload
VariantOf(j) == IF j.j = "str" THEN j.s ELSE CHOOSE k \in DOMAIN j.o : TRUE
PayloadOf(j) == j.o[VariantOf(j)]
BoolOf(j) == j.s = "true"
NumOf(j) == CHOOSE n \in 0..MaxNum : ToString(n) = j.s

\* lexer::TokenKinds
SerTokenKinds(kind) ==
    IF Len(kind) = 1 THEN JStr(kind[1]) ELSE JVariant(kind[1], JStr(kind[2]))
DeTokenKinds(j) ==
    IF j.j = "str" THEN <<j.s>> ELSE <<VariantOf(j), PayloadOf(j).s>>

\* grammar::MatchToken
SerMatchToken(token) ==
    CASE token.m = "Any" -> JStr("Any")
      [] token.m = "Token" -> JVariant("Token", SerTokenKinds(token.kind))
      [] OTHER -> JVariant(token.m, JStr(token.name))
DeMatchToken(j) ==
    CASE VariantOf(j) = "Any" -> MTAny
      [] VariantOf(j) = "Token" -> MTToken(DeTokenKinds(PayloadOf(j)))
      [] VariantOf(j) = "Node" -> MTNode(PayloadOf(j).s)
      [] VariantOf(j) = "Word" -> MTWord(PayloadOf(j).s)
      [] VariantOf(j) = "Enumerator" -> MTEnumerator(PayloadOf(j).s)

\* grammar::Parameters; Debug(None) is PDebug("")
UnitParameters == {"Return", "NodeStart", "NodeEnd"}
NumberParameters == {"Back", "Break"}
SerParameters(par) ==
    CASE par.p \in UnitParameters -> JStr(par.p)
      [] par.p \in NumberParameters -> JVariant(par.p, JNum(par.n))
      [] par.p = "HardError" -> JVariant(par.p, JBool(par.b))
      [] par.p = "Debug" -> JVariant(par.p, IF par.v = "" THEN JNull ELSE JStr(par.v))
      [] OTHER -> JVariant(par.p, JStr(par.v))
DeParameters(j) ==
    CASE VariantOf(j) \in UnitParameters ->
            [p |-> VariantOf(j), v |-> "", n |-> 0, b |-> FALSE]
      [] VariantOf(j) \in NumberParameters ->
            [p |-> VariantOf(j), v |-> "", n |-> NumOf(PayloadOf(j)), b |-> FALSE]
      [] VariantOf(j) = "HardError" -> PHardError(BoolOf(PayloadOf(j)))
      [] OTHER -> [p |-> VariantOf(j), v |-> PayloadOf(j).s, n |-> 0, b |-> FALSE]

SerParameterList(parameters) == JArr([i \in DOMAIN parameters |-> SerParameters(parameters[i])])
DeParameterList(j) == [i \in DOMAIN j.a |-> DeParameters(j.a[i])]

\* grammar::Rule, grammar::OneOf, the tuples of MaybeOneOf and grammar::Commands
RECURSIVE SerRule(_), SerRules(_), SerOneOf(_), SerTuple(_), SerCommands(_, _)
SerRules(rules) == JArr([i \in DOMAIN rules |-> SerRule(rules[i])])
SerOneOf(alt) ==
    JObj([token |-> SerMatchToken(alt.token), rules |-> SerRules(alt.rules),
          parameters |-> SerParameterList(alt.parameters)])
SerTuple(alt) ==
    JArr(<<SerMatchToken(alt.token), SerRules(alt.rules), SerParameterList(alt.parameters)>>)
SerCommands(cmd, rules) ==
    CASE cmd.c = "Compare" ->
            JVariant("Compare", JObj([left |-> JStr(cmd.a), right |-> JStr(cmd.b),
                                      comparison |-> JStr(cmd.op), rules |-> SerRules(rules)]))
      [] cmd.c = "Error" -> JVariant("Error", JObj([message |-> JStr(cmd.a)]))
      [] cmd.c = "HardError" -> JVariant("HardError", JObj([set |-> JBool(cmd.set)]))
      [] cmd.c = "Goto" -> JVariant("Goto", JObj([label |-> JStr(cmd.a)]))
      [] cmd.c = "Label" -> JVariant("Label", JObj([name |-> JStr(cmd.a)]))
      [] cmd.c = "Print" -> JVariant("Print", JObj([message |-> JStr(cmd.a)]))
SerRule(rule) ==
    CASE rule.r \in {"Is", "Isnt", "While", "Until"} ->
            JVariant(rule.r, JObj([token |-> SerMatchToken(rule.token),
                                   rules |-> SerRules(rule.rules),
                                   parameters |-> SerParameterList(rule.parameters)]))
      [] rule.r = "Maybe" ->
            JVariant("Maybe", JObj([token |-> SerMatchToken(rule.token),
                                    is |-> SerRules(rule.rules), isnt |-> SerRules(rule.isnt),
                                    parameters |-> SerParameterList(rule.parameters)]))
      [] rule.r \in {"IsOneOf", "UntilOneOf"} ->
            JVariant(rule.r, JObj([tokens |-> JArr([i \in DOMAIN rule.alts |->
                                                        SerOneOf(rule.alts[i])])]))
      [] rule.r = "MaybeOneOf" ->
            JVariant("MaybeOneOf",
                     JObj([is_one_of |-> JArr([i \in DOMAIN rule.alts |-> SerTuple(rule.alts[i])]),
                           isnt |-> SerRules(rule.isnt)]))
      [] rule.r = "Loop" -> JVariant("Loop", JObj([rules |-> SerRules(rule.rules)]))
      [] rule.r = "Command" ->
            JVariant("Command", JObj([command |-> SerCommands(rule.cmd, rule.rules)]))

RECURSIVE DeRule(_), DeRules(_), DeOneOf(_), DeTuple(_), DeCommands(_)
DeRules(j) == [i \in DOMAIN j.a |-> DeRule(j.a[i])]
DeOneOf(j) ==
    OneOf(DeMatchToken(j.o.token), DeRules(j.o.rules), DeParameterList(j.o.parameters))
DeTuple(j) == OneOf(DeMatchToken(j.a[1]), DeRules(j.a[2]), DeParameterList(j.a[3]))
DeCommands(j) ==
    CASE VariantOf(j) = "Compare" ->
            CmdCompare(PayloadOf(j).o.left.s, PayloadOf(j).o.right.s,
                       PayloadOf(j).o.comparison.s, DeRules(PayloadOf(j).o.rules))
      [] VariantOf(j) = "Error" -> CmdError(PayloadOf(j).o.message.s)
      [] VariantOf(j) = "HardError" -> CmdHardError(BoolOf(PayloadOf(j).o.set))
      [] VariantOf(j) = "Goto" -> CmdGoto(PayloadOf(j).o.label.s)
      [] VariantOf(j) = "Label" -> CmdLabel(PayloadOf(j).o.name.s)
      [] VariantOf(j) = "Print" -> CmdPrintMsg(PayloadOf(j).o.message.s)
DeRule(j) ==
    CASE VariantOf(j) \in {"Is", "Isnt", "While", "Until"} ->
            MkRule(VariantOf(j), DeMatchToken(PayloadOf(j).o.token),
                   DeRules(PayloadOf(j).o.rules), <<>>,
                   DeParameterList(PayloadOf(j).o.parameters), <<>>, NoCmd)
      [] VariantOf(j) = "Maybe" ->
            Maybe(DeMatchToken(PayloadOf(j).o.token), DeRules(PayloadOf(j).o.is),
                  DeRules(PayloadOf(j).o.isnt), DeParameterList(PayloadOf(j).o.parameters))
      [] VariantOf(j) \in {"IsOneOf", "UntilOneOf"} ->
            MkRule(VariantOf(j), MTAny, <<>>, <<>>, <<>>,
                   [i \in DOMAIN PayloadOf(j).o.tokens.a |-> DeOneOf(PayloadOf(j).o.tokens.a[i])],
                   NoCmd)
      [] VariantOf(j) = "MaybeOneOf" ->
            MaybeOneOf([i \in DOMAIN PayloadOf(j).o.is_one_of.a |->
                            DeTuple(PayloadOf(j).o.is_one_of.a[i])],
                       DeRules(PayloadOf(j).o.isnt))
      [] VariantOf(j) = "Loop" -> Loop(DeRules(PayloadOf(j).o.rules))
      [] VariantOf(j) = "Command" -> DeCommands(PayloadOf(j).o.command)

\* HashMap<String, VariableKind>, grammar::Node and grammar::Enumerator
SerVariables(variables) == JObj([n \in DOMAIN variables |-> JStr(variables[n])])
DeVariables(j) == [n \in DOMAIN j.o |-> j.o[n].s]
SerNode(node) ==
    JObj([name |-> JStr(node.name), rules |-> SerRules(node.rules),
          variables |-> SerVariables(node.variables)])
DeNode(j) == GNode(j.o.name.s, DeRules(j.o.rules), DeVariables(j.o.variables))
SerEnumerator(enum) ==
    JObj([name |-> JStr(enum.name),
          values |-> JArr([i \in DOMAIN enum.values |-> SerMatchToken(enum.values[i])])])
DeEnumerator(j) ==
    GEnum(j.o.name.s, [i \in DOMAIN j.o.values.a |-> DeMatchToken(j.o.values.a[i])])

\* grammar::Grammar
SerGrammar(g) ==
    JObj([nodes |-> JObj([n \in DOMAIN g.nodes |-> SerNode(g.nodes[n])]),
          enumerators |-> JObj([n \in DOMAIN g.enumerators |-> SerEnumerator(g.enumerators[n])]),
          globals |-> SerVariables(g.globals),
          eof |-> JBool(g.eof)])
DeGrammar(j) ==
    MkGrammar([n \in DOMAIN j.o.nodes.o |-> DeNode(j.o.nodes.o[n])],
              [n \in DOMAIN j.o.enumerators.o |-> DeEnumerator(j.o.enumerators.o[n])],
              DeVariables(j.o.globals), BoolOf(j.o.eof))

\* lexer::Lexer: the literals are written; the preprocessors are functions,
\* which the textual form does not hold, and a loaded lexer has none
SerLexer(lexer) ==
    JObj([token_kinds |-> JArr([i \in DOMAIN lexer.token_kinds |-> JStr(lexer.token_kinds[i])])])
DeLexer(j) ==
    [token_kinds |-> [i \in DOMAIN j.o.token_kinds.a |-> j.o.token_kinds.a[i].s],
     preprocessors |-> <<>>]

\* serde_json::to_string(&parser) and serde_json::from_str(&parser)
Serialize(p) ==
    JObj([lexer |-> SerLexer(p.lexer), grammar |-> SerGrammar(p.grammar),
          parser |-> JObj([entry |-> JStr(p.entry)])])
Deserialize(j) ==
    [lexer |-> DeLexer(j.o.lexer), grammar |-> DeGrammar(j.o.grammar),
     entry |-> j.o.parser.o.entry.s]

\* a preprocessor that drops the whitespace and the line ends
DropWhitespace(toks) == SelectSeq(toks, LAMBDA t : ~IsWhitespace(t.kind))
Preprocess(name, toks) == IF name = "skip_whitespace" THEN DropWhitespace(toks) ELSE toks

\* Lexer::lex_utf8: the raw tokens, handed through the preprocessors in order
RECURSIVE RunPreprocessors(_, _)
RunPreprocessors(preprocessors, toks) ==
    IF preprocessors = <<>>
    THEN toks
    ELSE RunPreprocessors(Tail(preprocessors), Preprocess(Head(preprocessors), toks))
LexAndPreprocess(lexer, chars) == RunPreprocessors(lexer.preprocessors, LexUtf8(lexer, chars))

(***************************************************************************)
(* A ninth set of inputs, for the saved parser: the grammars of the first  *)
(* and of the validator's inputs, with a lexer that has a preprocessor and *)
(* with one that has none, and the texts of at most MaxCharsJ characters.  *)
(* The parser is written to a file and read back after the first parse;    *)
(* the text is scanned and parsed again with the parser read.              *)
(***************************************************************************)
MaxCharsJ == 2

CharsJ == {"a", "+", " "}
PreprocessorLists == {<<>>, <<"skip_whitespace">>}
WithPreprocessors(p, preprocessors) ==
    [p EXCEPT !.lexer = [token_kinds |-> p.lexer.token_kinds, preprocessors |-> preprocessors]]
SavedGrammars ==
    Parsers \cup {MkParser(TokenLiterals, WarnGrammar(f, pos), DEFAULT_ENTRY) :
                     f \in WarnFeatures, pos \in {"top", "maybe_one_of", "until_one_of"}}
SavedParsers == {WithPreprocessors(p, pre) : p \in SavedGrammars, pre \in PreprocessorLists}

InitJ ==
    /\ parser \in SavedParsers
    /\ txt \in UNION {[1..k -> CharsJ] : k \in 0..MaxCharsJ}
    /\ tokens = <<>>
    /\ validation = <<>>
    /\ result = <<>>

\* parser.lexer.lex_utf8(txt), with the preprocessors of the lexer
LexText ==
    /\ tokens = <<>>
    /\ tokens' = LexAndPreprocess(parser.lexer, txt)
    /\ UNCHANGED <<parser, txt, validation, result>>

\* parser.parse(&tokens, txt) on the tokens of the text
ParseText ==
    /\ tokens # <<>>
    /\ Parse

\* tests::rules writes the parser with serde_json::to_string; tests::load_json
\* reads it with serde_json::from_str, scans the text with the lexer read and
\* parses the tokens with the parser read
LoadJson ==
    /\ Len(result) = 1
    /\ parser' = Deserialize(Serialize(parser))
    /\ tokens' = LexAndPreprocess(parser'.lexer, txt)
    /\ result' = Append(result, ParseTokens(parser', tokens'))
    /\ UNCHANGED <<txt, validation>>

NextJ == LexText \/ Validate \/ ParseText \/ LoadJson

SpecJ == InitJ /\ [][NextJ]_vars

(***************************************************************************)
(* A tenth set of inputs, for Loop: a node whose rule list has a Label, a  *)
(* Loop and the rules after it, at the top of the node and nested in a     *)
(* list that another rule follows.  The body of the Loop matches the word  *)
(* a, sends one control message when it matches, and goes to the Label    *)
(* end or fails when it does not; the rules after the Loop have that Label *)
(* directly after the Loop, further on, or not at all.                     *)
(***************************************************************************)
MaxToksP == 3

LoopLexemes == {"a", "b", "c"}
LoopTexts(n) == UNION {[1..k -> LoopLexemes] : k \in 0..n}

LoopMessages ==
    {<<>>, <<PBreak(1)>>, <<PBreak(2)>>, <<PBreak(3)>>, <<PReturn>>, <<PGoto("end")>>,
     <<PGoto("start")>>, <<PBack(1)>>, <<PBack(2)>>, <<PBack(3)>>}
LoopExitRules == {CmdGoto("end"), CmdError("stop")}
LoopBody(parameters, exit) ==
    <<Maybe(MTWord("a"), <<>>, <<exit>>, parameters),
      Maybe(MTWord("b"), <<>>, <<>>, <<PIncrement("n")>>)>>
LoopTails ==
    {<<Is(MTWord("b"), <<>>, <<PTrue("after")>>)>>,
     <<CmdLabel("end"), Maybe(MTWord("b"), <<>>, <<>>, <<PTrue("after")>>)>>,
     <<Maybe(MTWord("b"), <<>>, <<>>, <<PTrue("after")>>), CmdLabel("end"),
       Maybe(MTWord("c"), <<>>, <<>>, <<PBack(3)>>)>>}
LoopList(parameters, exit, tail) ==
    <<CmdLabel("start"), Loop(LoopBody(parameters, exit))>> \o tail
LoopRules(parameters, exit, tail, nested) ==
    IF nested
    THEN <<Nested(LoopList(parameters, exit, tail)),
           Maybe(MTWord("c"), <<>>, <<>>, <<PTrue("outer")>>)>>
    ELSE LoopList(parameters, exit, tail)
LoopGrammar(parameters, exit, tail, nested) ==
    MkGrammar(MapOf(<<GNode("entry", LoopRules(parameters, exit, tail, nested),
                            Vars(<<<<"n", "Number">>, <<"after", "Boolean">>,
                                   <<"outer", "Boolean">>>>))>>),
              EmptyMap, EmptyMap, FALSE)
LoopParsers ==
    {MkParser(TokenLiterals, LoopGrammar(parameters, exit, tail, nested), DEFAULT_ENTRY) :
        parameters \in LoopMessages, exit \in LoopExitRules, tail \in LoopTails,
        nested \in BOOLEAN}

InitP ==
    /\ parser \in LoopParsers
    /\ txt \in LoopTexts(MaxToksP)
    /\ tokens = MkTokens(txt, 0)
    /\ validation = <<>>
    /\ result = <<>>

SpecP == InitP /\ [][Next]_vars

(***************************************************************************)
(* An eleventh set of inputs, for Isnt: a node guard whose rule list has   *)
(* an Isnt, after a rule that matched a token or first in the list, with   *)
(* and without nested rules, followed by a rule that takes the token under *)
(* the cursor or the next text; the target of the Isnt is a token, a word, *)
(* a node, an enumerator or Any.  guard is the entry node or the optional target of   *)
(* a rule of the entry node.                                               *)
(***************************************************************************)
MaxToksI == 3

IsntLexemes == {"let", "a", "+", " "}
IsntTexts(n) == UNION {[1..k -> IsntLexemes] : k \in 0..n}

IsntTargets ==
    {MTToken(KTok("+")), MTToken(KText), MTWord("a"), MTNode("pair"), MTEnumerator("ops"), MTAny}
IsntLeads == {<<>>, <<Is(MTWord("let"), <<>>, <<>>)>>}
IsntNested == {<<>>, <<Maybe(MTToken(KTok("+")), <<>>, <<>>, <<PTrue("ran")>>)>>}
IsntFollowers == {MTAny, MTToken(KText)}
IsntNodes(target, lead, nested, follower) ==
    <<GNode("guard", lead \o <<Isnt(target, nested, <<PSet("next")>>),
                               Is(follower, <<>>, <<PSet("next")>>)>>,
            Vars(<<<<"next", "NodeList">>, <<"ran", "Boolean">>>>)),
      GNode("parent", <<Maybe(MTNode("guard"), <<>>, <<>>, <<PSet("n")>>),
                        Is(MTAny, <<>>, <<PSet("next")>>)>>,
            Vars(<<<<"n", "Node">>, <<"next", "Node">>>>)),
      GNode("pair", <<Is(MTWord("a"), <<>>, <<>>), Is(MTToken(KTok("+")), <<>>, <<>>)>>,
            EmptyMap)>>
IsntEnumerators == <<GEnum("ops", <<MTToken(KTok("+")), MTNode("pair")>>)>>
IsntGrammar(target, lead, nested, follower) ==
    MkGrammar(MapOf(IsntNodes(target, lead, nested, follower)), MapOf(IsntEnumerators),
              EmptyMap, FALSE)
IsntParsers ==
    {MkParser(TokenLiterals, IsntGrammar(target, lead, nested, follower), e) :
        target \in IsntTargets, lead \in IsntLeads, nested \in IsntNested,
        follower \in IsntFollowers, e \in {"guard", "parent"}}

InitI ==
    /\ parser \in IsntParsers
    /\ txt \in IsntTexts(MaxToksI)
    /\ tokens = MkTokens(txt, 0)
    /\ validation = <<>>
    /\ result = <<>>

SpecI == InitI /\ [][Next]_vars

(***************************************************************************)
(* A twelfth set of inputs, for Compare and for the attributes: the node   *)
(* count counts the + into x and into the global total, the - into y, and  *)
(* takes the ; off x again; the node flags sets p at a +, q at a - and     *)
(* clears p at a ;.  Each ends with a Compare of its two attributes, whose *)
(* nested rules are an Error command or a Label.  Both nodes and globals   *)
(* declare attributes that no parameter names.  parent has count as the    *)
(* target of its only rule.                                                *)
(***************************************************************************)
MaxToksC == 4

CompareLexemes == {"+", "-", ";"}
CompareTexts(n) == UNION {[1..k -> CompareLexemes] : k \in 0..n}

ComparisonKinds ==
    {"Equal", "NotEqual", "GreaterThan", "LessThan", "GreaterThanOrEqual", "LessThanOrEqual"}
CompareNested == {<<CmdError("holds")>>, <<CmdLabel("ran")>>}
CompareNodes(op, nested) ==
    <<GNode("count",
            <<While(MTToken(KTok("+")), <<>>, <<PIncrement("x"), PIncrementGlobal("total")>>),
              While(MTToken(KTok("-")), <<>>, <<PIncrement("y")>>),
              While(MTToken(KTok(";")), <<>>, <<PDecrement("x")>>),
              CmdCompare("x", "y", op, nested)>>,
            Vars(<<<<"x", "Number">>, <<"y", "Number">>, <<"spare", "Number">>,
                   <<"flag", "Boolean">>, <<"one", "Node">>, <<"list", "NodeList">>>>)),
      GNode("flags",
            <<Maybe(MTToken(KTok("+")), <<>>, <<>>, <<PTrue("p")>>),
              Maybe(MTToken(KTok("-")), <<>>, <<>>, <<PTrue("q")>>),
              Maybe(MTToken(KTok(";")), <<>>, <<>>, <<PFalse("p")>>),
              CmdCompare("p", "q", op, nested)>>,
            Vars(<<<<"p", "Boolean">>, <<"q", "Boolean">>, <<"spare", "Number">>>>)),
      GNode("parent", <<Is(MTNode("count"), <<>>, <<PSet("child")>>)>>,
            Vars(<<<<"child", "Node">>, <<"others", "NodeList">>>>))>>
CompareGrammar(op, nested) ==
    MkGrammar(MapOf(CompareNodes(op, nested)), EmptyMap,
              Vars(<<<<"total", "Number">>, <<"seen", "Boolean">>, <<"any", "Node">>,
                     <<"all", "NodeList">>>>), FALSE)
CompareParsers ==
    {MkParser(TokenLiterals, CompareGrammar(op, nested), e) :
        op \in ComparisonKinds, nested \in CompareNested, e \in {"count", "flags", "parent"}}

InitC ==
    /\ parser \in CompareParsers
    /\ txt \in CompareTexts(MaxToksC)
    /\ tokens = MkTokens(txt, 0)
    /\ validation = <<>>
    /\ result = <<>>

SpecC == InitC /\ [][Next]_vars

(***************************************************************************)
(* A thirteenth set of inputs, for sub-nodes that fail after having        *)
(* written: child takes a word, applies one parameter to it and expects a  *)
(* ; after it; outer holds an inner that takes the word and applies the    *)
(* parameter, and expects the ; itself.  The parameter writes a global, or *)
(* a variable of the sub-node.  The entry node writes its own variables    *)
(* and a global at a leading +, then has the sub-node as the target of a   *)
(* Maybe, a MaybeOneOf, an IsOneOf, a While, or as the first value of an   *)
(* enumerator, and takes a word after it.                                  *)
(***************************************************************************)
MaxToksG == 3

WriteLexemes == {"a", ";", "+"}
WriteTexts(n) == UNION {[1..k -> WriteLexemes] : k \in 0..n}

SubNodeWrites ==
    {PGlobal("last"), PGlobal("all"), PIncrementGlobal("n"), PTrueGlobal("seen"),
     PFalseGlobal("on"), PSet("own")}
SubNodes == {"child", "outer"}
Attempting(target) ==
    {Maybe(MTNode(target), <<>>, <<>>, <<PSet("sub")>>),
     MaybeOneOf(<<OneOf(MTNode(target), <<>>, <<PSet("sub")>>)>>, <<>>),
     IsOneOf(<<OneOf(MTNode(target), <<>>, <<PSet("sub")>>),
               OneOf(MTToken(KText), <<>>, <<PSet("rest")>>)>>),
     While(MTNode(target), <<>>, <<PSet("subs")>>),
     Is(MTEnumerator("either"), <<>>, <<PSet("sub")>>)}

WriteNodes(par, attempt) ==
    <<GNode(DEFAULT_ENTRY,
            <<Maybe(MTToken(KTok("+")), <<>>, <<>>,
                    <<PTrueGlobal("on"), PTrue("mine"), PIncrement("count")>>),
              attempt,
              Maybe(MTToken(KText), <<>>, <<>>, <<PSet("rest")>>)>>,
            Vars(<<<<"mine", "Boolean">>, <<"count", "Number">>, <<"sub", "Node">>,
                   <<"subs", "NodeList">>, <<"rest", "Node">>>>)),
      GNode("child",
            <<Is(MTToken(KText), <<>>, <<par>>), Is(MTToken(KTok(";")), <<>>, <<>>)>>,
            Vars(<<<<"own", "Node">>>>)),
      GNode("outer",
            <<Is(MTNode("inner"), <<>>, <<PSet("in")>>), Is(MTToken(KTok(";")), <<>>, <<>>)>>,
            Vars(<<<<"in", "Node">>>>)),
      GNode("inner", <<Is(MTToken(KText), <<>>, <<par>>)>>, Vars(<<<<"own", "Node">>>>))>>
WriteGrammar(par, target, attempt) ==
    MkGrammar(MapOf(WriteNodes(par, attempt)),
              MapOf(<<GEnum("either", <<MTNode(target), MTToken(KText)>>)>>),
              Vars(<<<<"last", "Node">>, <<"all", "NodeList">>, <<"n", "Number">>,
                     <<"seen", "Boolean">>, <<"on", "Boolean">>>>), FALSE)
WriteParsers ==
    UNION {{MkParser(TokenLiterals, WriteGrammar(par, target, attempt), DEFAULT_ENTRY) :
              attempt \in Attempting(target)} :
           par \in SubNodeWrites, target \in SubNodes}

InitG ==
    /\ parser \in WriteParsers
    /\ txt \in WriteTexts(MaxToksG)
    /\ tokens = MkTokens(txt, 0)
    /\ validation = <<>>
    /\ result = <<>>

SpecG == InitG /\ [][Next]_vars

(***************************************************************************)
(* Properties.  They speak of the value parse() returned, of what          *)
(* validate() returned, and of the trace of the parse.                     *)
(***************************************************************************)
Trace == result[1].trace
ErrorKind == result[1].err.kind[1]

\* the entry node was parsed to the end: parse_node returned Ok(node)
EntrySucceeded ==
    /\ Trace # <<>>
    /\ Trace[Len(Trace)].e = "nodeok"
    /\ Trace[Len(Trace)].depth = 0

\* a miss the rules treat as soft / as hard
SoftMiss(ev) == ev.e = "attempt" /\ ev.res = "IsNot" /\ ~ev.data.hard

\* the rule evaluation an event of the trace belongs to: the last "rule"
\* event before it in the same rule list
Owner(tr, j) ==
    CHOOSE i \in 1..(j - 1) :
        /\ tr[i].e = "rule" /\ tr[i].depth = tr[j].depth
        /\ \A k \in (i + 1)..(j - 1) : ~(tr[k].e = "rule" /\ tr[k].depth = tr[j].depth)

\* the end of the rule list that starts right after event j of a list of depth d
ListEnd(tr, j, d) ==
    CHOOSE e \in (j + 1)..Len(tr) :
        /\ tr[e].e = "end" /\ tr[e].depth = d + 1
        /\ \A k \in (j + 1)..(e - 1) : ~(tr[k].e = "end" /\ tr[k].depth = d + 1)

\* C1: when a node fails with its harderror flag set, parse fails with that
\* node's error, and after the failure no rule is evaluated, no target is
\* matched or missed softly, no parameter is applied and no isnt branch is
\* run, whatever nodes lie between the failing node and the entry node.
C1_HardErrorUnwindsToParse ==
    Parsed =>
        \A i \in DOMAIN Trace :
            (Trace[i].e = "nodefail" /\ Trace[i].res = "hard") =>
                /\ ~result[1].ok
                /\ result[1].err.kind = Trace[i].data
                /\ \A j \in (i + 1)..Len(Trace) :
                      /\ Trace[j].e \notin {"rule", "params", "isnt", "nodeok"}
                      /\ Trace[j].e = "attempt" => Trace[j].res = "Err"

\* a node failed hard below a node whose own flag is off, itself the target
\* of a Maybe
C1_HardFailureBelowSoftNode ==
    /\ Parsed
    /\ parser.entry = "deep"
    /\ \E i \in DOMAIN Trace : Trace[i].e = "nodefail" /\ Trace[i].res = "hard"

\* C2: when a Token, Word, Enumerator or Node target of a Maybe, MaybeOneOf,
\* IsOneOf or While misses softly, the cursor after the attempt (index and
\* pending advance) is the cursor before it.
C2_SoftMissRestoresCursor ==
    Parsed =>
        \A i \in DOMAIN Trace :
            (/\ SoftMiss(Trace[i])
             /\ Trace[i].rule \in {"Maybe", "MaybeOneOf", "IsOneOf", "While"}
             /\ Trace[i].data.target.m \in {"Token", "Word", "Enumerator", "Node"}) =>
                Trace[i].after = Trace[i].before

\* a Token or Word target missed softly with whitespace under the cursor
C2_SoftMissOverWhitespace ==
    /\ Parsed
    /\ \E i \in DOMAIN Trace :
          /\ SoftMiss(Trace[i])
          /\ Trace[i].rule \in {"Maybe", "MaybeOneOf", "IsOneOf", "While"}
          /\ Trace[i].data.target.m \in {"Token", "Word"}
          /\ IsWhitespace(TokAt(tokens, Trace[i].before.idx).kind)

\* C3: if validate() passes, parse() never returns LabelNotFound.
C3_PassMeansLabelsFound ==
    (Validated /\ Parsed /\ Pass(validation[1])) => ErrorKind # "LabelNotFound"

\* a grammar that passes validation and jumps to a label
C3_ValidatedGoto ==
    /\ Validated /\ Parsed /\ Pass(validation[1])
    /\ parser.grammar = LabelGrammar
    /\ \E i \in DOMAIN Trace :
          /\ Trace[i].e = "rule" /\ Trace[i].data.cmd.c = "Goto"
          /\ \E j \in (i + 1)..Len(Trace) :
                Trace[j].e = "rule" /\ Trace[j].data.cmd.c = "Label"

\* C4: if validate() passes, parse() never returns VariableNotFound; and the
\* grammar of tests::string, whose Compare names variables of the node that
\* holds it, passes validation.
C4_PassMeansVariablesFound ==
    /\ (Validated /\ Parsed /\ Pass(validation[1])) => ErrorKind # "VariableNotFound"
    /\ (Validated /\ parser.grammar = StringGrammar) => Pass(validation[1])

\* a Compare command is reached in a grammar that passed validation
C4_ValidatedCompare ==
    /\ Validated /\ Parsed /\ Pass(validation[1])
    /\ \E i \in DOMAIN Trace : Trace[i].e = "rule" /\ Trace[i].data.cmd.c = "Compare"

\* C5: if validate() passes, parse() returns neither NodeNotFound nor
\* EnumeratorNotFound.
C5_PassMeansNamesFound ==
    (Validated /\ Parsed /\ Pass(validation[1])) =>
        ErrorKind \notin {"NodeNotFound", "EnumeratorNotFound"}

\* an enumerator is matched in a grammar that passed validation
C5_ValidatedEnumerator ==
    /\ Validated /\ Parsed /\ Pass(validation[1])
    /\ \E i \in DOMAIN Trace :
          Trace[i].e = "attempt" /\ Trace[i].data.target.m = "Enumerator"

\* the kinds of variable a parameter can be applied to, as the claim lists them
ClaimedKinds(p) ==
    CASE p \in {"Set", "Global"} -> {"Node", "NodeList"}
      [] p \in {"Increment", "Decrement", "IncrementGlobal"} -> {"Number"}
      [] p \in {"True", "False", "TrueGlobal", "FalseGlobal"} -> {"Boolean"}

\* the parameters of the rule of a KindGrammar
KindParameters(rule) ==
    IF rule.r = "IsOneOf" THEN rule.alts[1].parameters ELSE rule.parameters

\* C6: if validate() passes, parse() returns neither CannotSetVariable nor
\* UncountableVariable, and every parameter of the grammar names a variable
\* that the scope the parser reads (node variables, or globals for the
\* Global variants) declares with a kind the parameter can be applied to.
C6_PassMeansKindsAgree ==
    (Validated /\ Pass(validation[1])) =>
        /\ Parsed => ErrorKind \notin {"CannotSetVariable", "UncountableVariable"}
        /\ \A name \in DOMAIN parser.grammar.nodes :
              \A i \in DOMAIN parser.grammar.nodes[name].rules :
                 LET pars == KindParameters(parser.grammar.nodes[name].rules[i])
                 IN  \A k \in DOMAIN pars :
                        LET scope == IF pars[k].p \in {"Global", "IncrementGlobal",
                                                       "TrueGlobal", "FalseGlobal"}
                                     THEN parser.grammar.globals
                                     ELSE parser.grammar.nodes[name].variables
                        IN  /\ pars[k].v \in DOMAIN scope
                            /\ scope[pars[k].v] \in ClaimedKinds(pars[k].p)

\* a validated grammar whose IncrementGlobal was applied to a Number global,
\* the node declaring a variable of the same name and of another kind
C6_GlobalCounted ==
    /\ Validated /\ Parsed /\ Pass(validation[1])
    /\ result[1].ok
    /\ parser.grammar.nodes["entry"].rules[1].r = "Is"
    /\ parser.grammar.nodes["entry"].rules[1].parameters[1].p = "IncrementGlobal"
    /\ "v" \in DOMAIN parser.grammar.nodes["entry"].variables
    /\ parser.grammar.nodes["entry"].variables["v"] = "Boolean"
    /\ result[1].globals["v"].val = 1

\* the first token that the entry node has not matched: the cursor it left,
\* moved over the token of a pending advance
Unmatched == result[1].exit.idx + (IF result[1].exit.to_advance THEN 1 ELSE 0)

\* the index of the first token at or after i that is not whitespace (the
\* Eof token at the latest)
FirstToken(i) ==
    CHOOSE j \in i..(Len(tokens) - 1) :
        /\ ~IsWhitespace(TokAt(tokens, j).kind)
        /\ \A k \in i..(j - 1) : IsWhitespace(TokAt(tokens, k).kind)

\* C7: with eof = true and the entry node parsed, parse() is Ok exactly when
\* only whitespace lies between the last token the entry node matched and
\* Eof, and otherwise returns MissingEof of the kind of the first such token
\* that is not whitespace, with the entry node attached; with eof = false
\* parse() is Ok exactly when the entry node is parsed.
C7_StrictEof ==
    Parsed =>
        IF ~parser.grammar.eof
        THEN result[1].ok <=> EntrySucceeded
        ELSE EntrySucceeded =>
                LET rest == IF Unmatched >= Len(tokens)
                            THEN KEof
                            ELSE TokAt(tokens, FirstToken(Unmatched)).kind
                IN  /\ result[1].ok <=> rest = KEof
                    /\ ~result[1].ok =>
                          /\ result[1].err.kind = <<"MissingEof", rest>>
                          /\ result[1].err.node = <<result[1].entry>>

\* eof = true, and the entry node matched every token of the text
C7_AllMatched ==
    /\ Parsed
    /\ parser.grammar.eof
    /\ EntrySucceeded
    /\ Len(tokens) > 1
    /\ Unmatched = Len(tokens) - 1

\* the attempts of one rule evaluation o, in the order they were made
Attempts(tr, o) ==
    {j \in (o + 1)..Len(tr) :
        tr[j].e = "attempt" /\ tr[j].depth = tr[o].depth /\ Owner(tr, j) = o}

\* C8: the alternatives of an IsOneOf are attempted in declaration order,
\* each after a soft miss of the one before; once an alternative matches,
\* its parameters are applied, its nested rules run, and no later
\* alternative is attempted; if the last alternative misses softly too, the
\* rule fails with ExpectedOneOf listing the targets in declaration order,
\* and so does the node.
C8_IsOneOfOrderAndCommitment ==
    Parsed =>
        \A j \in DOMAIN Trace :
            (Trace[j].e = "attempt" /\ Trace[j].rule = "IsOneOf") =>
                LET a == Trace[j]
                    o == Owner(Trace, j)
                    alts == Trace[o].data.alts
                    earlier == {i \in Attempts(Trace, o) : i < j}
                    later == {i \in Attempts(Trace, o) : i > j}
                IN  /\ Trace[o].rule = "IsOneOf"
                    /\ a.alt = Cardinality(earlier) + 1
                    /\ a.data.target = alts[a.alt].token
                    /\ \A i \in earlier : SoftMiss(Trace[i]) /\ Trace[i].alt < a.alt
                    /\ a.res = "Is" =>
                          /\ later = {}
                          /\ Trace[j + 1].e = "params"
                          /\ Trace[j + 1].rule = "IsOneOf" /\ Trace[j + 1].alt = a.alt
                          /\ Trace[j + 1].depth = a.depth
                          /\ Trace[j + 2].depth = a.depth + 1
                    /\ (SoftMiss(a) /\ a.alt < Len(alts)) => later # {}
                    /\ (SoftMiss(a) /\ a.alt = Len(alts)) =>
                          /\ Trace[j + 1].e = "fail" /\ Trace[j + 1].depth = a.depth
                          /\ Trace[j + 1].data.kind[1] = "ExpectedOneOf"
                          /\ Trace[j + 1].data.kind[2] = [k \in 1..Len(alts) |-> alts[k].token]
                          /\ \E n \in (j + 1)..Len(Trace) :
                                /\ Trace[n].e = "nodefail" /\ Trace[n].node = a.node
                                /\ Trace[n].data = Trace[j + 1].data.kind

\* the second alternative of an IsOneOf of three matched after the first missed
C8_SecondAlternativeMatched ==
    /\ Parsed
    /\ \E j \in DOMAIN Trace :
          /\ Trace[j].e = "attempt" /\ Trace[j].rule = "IsOneOf"
          /\ Trace[j].alt = 2 /\ Trace[j].res = "Is"
          /\ Len(Trace[Owner(Trace, j)].data.alts) = 3

\* C9: when the target of a Maybe, or the last alternative of a MaybeOneOf,
\* misses softly, the isnt rules are run; the rule fails only if they fail;
\* and if they end without a message the list goes on with the next rule, or
\* ends without an error when there is none.
C9_MaybeNeverFailsOnMiss ==
    Parsed =>
        \A j \in DOMAIN Trace :
            (/\ SoftMiss(Trace[j])
             /\ Trace[j].rule \in {"Maybe", "MaybeOneOf"}
             /\ Trace[j].rule = "MaybeOneOf" =>
                   Trace[j].alt = Len(Trace[Owner(Trace, j)].data.alts)) =>
                LET a == Trace[j]
                    o == Owner(Trace, j)
                    e == ListEnd(Trace, j + 1, a.depth)
                IN  /\ Trace[j + 1].e = "isnt"
                    /\ Trace[j + 1].rule = a.rule /\ Trace[j + 1].depth = a.depth
                    /\ Trace[j + 2].depth = a.depth + 1
                    /\ Trace[j + 2].e = "rule" => Trace[j + 2].data = Trace[o].data.isnt[1]
                    /\ Trace[j + 2].e # "rule" => Trace[o].data.isnt = <<>>
                    /\ Trace[e + 1].e = "fail" <=> Trace[e].res = "Err"
                    /\ Trace[e].res = "Ok" =>
                          \/ /\ Trace[e + 1].e = "rule" /\ Trace[e + 1].depth = a.depth
                             /\ Trace[e + 1].alt = Trace[o].alt + 1
                          \/ /\ Trace[e + 1].e = "end" /\ Trace[e + 1].depth = a.depth
                             /\ Trace[e + 1].res = "Ok"

\* every alternative of a MaybeOneOf missed softly, and the parse went on
C9_EveryAlternativeMissed ==
    /\ Parsed
    /\ result[1].ok
    /\ \E j \in DOMAIN Trace :
          /\ SoftMiss(Trace[j]) /\ Trace[j].rule = "MaybeOneOf" /\ Trace[j].alt = 2
          /\ Trace[j + 2].e = "rule"

\* the tokens that are not whitespace
Significant == SelectSeq(tokens, LAMBDA t : ~IsWhitespace(t.kind))

\* how many times `+`, each followed by at most one `a`, is found from token i
\* of Significant
RECURSIVE Pluses(_)
Pluses(i) ==
    IF Significant[i].kind # KTok("+")
    THEN 0
    ELSE IF Significant[i + 1].kind = KText /\ Significant[i + 1].str = "a"
         THEN 1 + Pluses(i + 2)
         ELSE 1 + Pluses(i + 1)

\* C10: when the target of a While matches, its parameters are applied and
\* its nested rules run, once, and the While is evaluated again; when it
\* misses softly no error is raised and the list goes on with the next rule.
\* In the node `while`, whose While counts in c and collects in l the `+` it
\* matches, c and the length of l end as the number of `+` found, zero
\* included, and the rule after the While is run.
C10_WhileOncePerIteration ==
    Parsed =>
        /\ \A j \in DOMAIN Trace :
              (Trace[j].e = "attempt" /\ Trace[j].rule = "While") =>
                  LET a == Trace[j]
                      o == Owner(Trace, j)
                      e == ListEnd(Trace, j + 1, a.depth)
                  IN  /\ Attempts(Trace, o) = {j}
                      /\ a.res = "Is" =>
                            /\ Trace[j + 1].e = "params" /\ Trace[j + 1].rule = "While"
                            /\ Trace[j + 1].depth = a.depth
                            /\ Trace[j + 2].depth = a.depth + 1
                            /\ Trace[e].res = "Ok" =>
                                  /\ Trace[e + 1].e = "rule" /\ Trace[e + 1].depth = a.depth
                                  /\ Trace[e + 1].alt = Trace[o].alt
                      /\ SoftMiss(a) =>
                            \/ /\ Trace[j + 1].e = "rule" /\ Trace[j + 1].depth = a.depth
                               /\ Trace[j + 1].alt = Trace[o].alt + 1
                            \/ /\ Trace[j + 1].e = "end" /\ Trace[j + 1].depth = a.depth
                               /\ Trace[j + 1].res = "Ok"
        /\ (parser.grammar = TokenGrammar(parser.grammar.eof) /\ parser.entry = "while") =>
              /\ EntrySucceeded
              /\ result[1].entry.variables["c"].val = Pluses(1)
              /\ Len(result[1].entry.variables["l"].val) = Pluses(1)
              /\ result[1].entry.variables["after"].val = TRUE

\* the While of the node `while` matched twice and then missed
C10_TwoIterations ==
    /\ Parsed
    /\ parser.entry = "while" /\ parser.grammar = TokenGrammar(FALSE)
    /\ result[1].entry.variables["c"].val = 2
    /\ Len(result[1].entry.variables["l"].val) = 2
    /\ result[1].entry.variables["after"].val = TRUE

(***************************************************************************)
(* What the parameters of a parse did, read off the trace.                 *)
(***************************************************************************)
\* the parameter list applied with the match that event j of the trace records
Applied(tr, j) ==
    LET r == tr[Owner(tr, j)].data
    IN  IF r.r \in {"IsOneOf", "MaybeOneOf", "UntilOneOf"}
        THEN r.alts[tr[j].alt].parameters
        ELSE r.parameters

\* the values the parameters of kind p naming v stored, in the order they fired
RECURSIVE StoredBy(_, _, _, _)
StoredBy(pars, k, p, value) ==
    IF k > Len(pars)
    THEN <<>>
    ELSE (IF pars[k].p = p.p /\ pars[k].v = p.v THEN <<value>> ELSE <<>>)
         \o StoredBy(pars, k + 1, p, value)

\* the values parameter p stored while rules of the node `name` ran, from event j on
RECURSIVE Fired(_, _, _, _)
Fired(tr, j, name, p) ==
    IF j > Len(tr)
    THEN <<>>
    ELSE (IF tr[j].e = "params" /\ tr[j].node = name
          THEN StoredBy(Applied(tr, j), 1, p, tr[j].data)
          ELSE <<>>)
         \o Fired(tr, j + 1, name, p)

\* where in the text a stored value begins: a token's index, and for a node
\* of the scanning grammar the index of the token it kept
Begin(value) ==
    IF value.t = "Token"
    THEN value.v.index
    ELSE value.v.variables["t"].val[1].v.index

\* C11: after a successful parse every NodeList attribute, of the entry node
\* and of the globals, holds exactly the values its Set (Global) parameters
\* stored, in the order in which they fired, a value stored twice being held
\* twice; and that order is the left-to-right order of the values in the text.
C11_NodeListEncounterOrder ==
    (Parsed /\ result[1].ok) =>
        /\ \A v \in DOMAIN result[1].entry.variables :
              result[1].entry.variables[v].k = "NodeList" =>
                  LET l == result[1].entry.variables[v].val
                  IN  /\ l = Fired(Trace, 1, parser.entry, PSet(v))
                      /\ \A a, b \in DOMAIN l : a < b => Begin(l[a]) <= Begin(l[b])
        /\ \A v \in DOMAIN result[1].globals :
              result[1].globals[v].k = "NodeList" =>
                  LET l == result[1].globals[v].val
                  IN  /\ l = Fired(Trace, 1, parser.entry, PGlobal(v))
                      /\ \A a, b \in DOMAIN l : a < b => Begin(l[a]) <= Begin(l[b])

\* the node `value` parsed operand, operator, operand: three elements in the
\* order of the text
C11_OperandOperatorOperand ==
    /\ Parsed /\ result[1].ok
    /\ parser.entry = "value"
    /\ Len(result[1].entry.variables["nodes"].val) = 3
    /\ result[1].entry.variables["nodes"].val[1].v.kind = KText
    /\ result[1].entry.variables["nodes"].val[2].v.kind = KTok("+")
    /\ result[1].entry.variables["nodes"].val[3].v.kind = KText
    /\ result[1].entry.variables["nodes"].val[3].v.index = 2

\* the scan of every Until that was evaluated: at most n - i attempts when it
\* starts at token i of n, each after a miss of the one before and one token
\* further on; the scan ends with a match, whose parameters are applied to
\* the token under the cursor, or with a miss on the last token, and then
\* the parse fails with CouldNotFindToken(t); errors says whether it may
\* also end with an error of the target
UntilScans(errors) ==
    Parsed =>
        \A o \in DOMAIN Trace :
            (Trace[o].e = "rule" /\ Trace[o].rule = "Until") =>
                LET A == Attempts(Trace, o)
                    first == CHOOSE k \in A : \A l \in A : k <= l
                    last == CHOOSE k \in A : \A l \in A : l <= k
                    a == Trace[last]
                IN  /\ A # {}
                    /\ Cardinality(A) <= Len(tokens) - Trace[first].before.idx
                    /\ \A k \in A \ {last} :
                          /\ Trace[k].res = "IsNot"
                          /\ \E l \in A :
                                /\ k < l /\ \A x \in A : ~(k < x /\ x < l)
                                /\ Trace[l].before.idx = Trace[k].after.idx + 1
                    /\ CASE a.res = "Is" ->
                               /\ Trace[last + 1].e = "params" /\ Trace[last + 1].rule = "Until"
                               /\ Trace[last + 1].depth = a.depth
                               /\ Trace[last + 1].data = TokenVal(TokAt(tokens, a.after.idx))
                          [] a.res = "IsNot" ->
                               /\ a.after.idx = Len(tokens) - 1
                               /\ ~result[1].ok
                               /\ result[1].err.kind = <<"CouldNotFindToken", Trace[o].data.token>>
                          [] a.res = "Err" ->
                               /\ errors
                               /\ ~result[1].ok
                               /\ result[1].err.kind = a.data.kind

\* C12: Until always terminates and is bounded by the length of the input:
\* started at token i of n it makes at most n - i attempts, and then either
\* stops at the first position at which t matches, applying its parameters
\* there, or fails the node with CouldNotFindToken(t).
C12_UntilMatchesOrCouldNotFind == UntilScans(FALSE)

\* C12 as amended: the same bound and the same two outcomes, and a third one:
\* when the target is a node that fails with its harderror flag set, the scan
\* stops there and the node fails with the error of that node.
C12_UntilBoundedByInput == UntilScans(TRUE)

\* an Until missed its target at two positions and matched it at a third
C12_MatchedAtThirdPosition ==
    /\ Parsed
    /\ \E o \in DOMAIN Trace :
          /\ Trace[o].e = "rule" /\ Trace[o].rule = "Until"
          /\ Cardinality(Attempts(Trace, o)) = 3
          /\ \E k \in Attempts(Trace, o) : Trace[k].res = "Is"

\* the UntilOneOf evaluations none of whose attempts matched
MissedEverywhere ==
    {o \in DOMAIN Trace :
        /\ Trace[o].e = "rule" /\ Trace[o].rule = "UntilOneOf"
        /\ \A k \in Attempts(Trace, o) : Trace[k].res = "IsNot"}

\* C13: when no alternative of an UntilOneOf matches at any position from the
\* cursor to the last token, the rule fails the node with CouldNotFindToken;
\* the token index never moves past the last token and no token is read
\* outside the token sequence.
C13_UntilOneOfCouldNotFind ==
    (Parsed /\ MissedEverywhere # {}) =>
        /\ ~result[1].ok
        /\ result[1].err.kind[1] = "CouldNotFindToken"
        /\ result[1].err # Panic(result[1].err.at)
        /\ \A j \in DOMAIN Trace : Trace[j].after.idx < Len(tokens)

\* an UntilOneOf missed at every token up to Eof and then read the token
\* after the last one
C13_ReadPastEof ==
    /\ Parsed /\ MissedEverywhere # {}
    /\ tokens[1].kind = KTok("+")
    /\ result[1].err = Panic(Len(tokens))

\* the values of the enumerator `operators`, in declaration order
Operators == parser.grammar.enumerators["operators"].values

\* C14: when Is(Enumerator e) is evaluated and the next token k that is not
\* whitespace matches none of the values of e, the node fails with
\* ExpectedOneOf{expected, found}, expected being the values of e in
\* declaration order and found the kind of k, also when whitespace precedes k.
C14_EnumeratorMissReportsToken ==
    (/\ Parsed /\ parser.entry = "enumerator"
     /\ \A k \in DOMAIN Operators : Operators[k].kind # TokAt(tokens, FirstToken(0)).kind) =>
        /\ ~result[1].ok
        /\ result[1].err.kind = <<"ExpectedOneOf", Operators, TokAt(tokens, FirstToken(0)).kind>>

\* the enumerator missed on `;` after a space and reported the space
C14_ReportedWhitespace ==
    /\ Parsed /\ parser.entry = "enumerator"
    /\ Len(tokens) > 2
    /\ TokAt(tokens, 0).kind = KWhitespace /\ TokAt(tokens, 1).kind = KTok(";")
    /\ result[1].err.kind = <<"ExpectedOneOf", Operators, KWhitespace>>

\* the same miss without whitespace before `;`, reported as the claim says
C14_ReportedToken ==
    /\ Parsed /\ parser.entry = "enumerator"
    /\ TokAt(tokens, 0).kind = KTok(";")
    /\ result[1].err.kind = <<"ExpectedOneOf", Operators, KTok(";")>>

\* the entries of HardGrammar whose first rule has the node C, which sets its
\* harderror flag once `let` is matched, as its target or as an alternative
TargetsC ==
    /\ parser.grammar = HardGrammar
    /\ parser.entry \in {"maybe", "maybe_one_of", "is_one_of", "while"}

\* C15: when the target of a Maybe or While, or an alternative of an IsOneOf
\* or MaybeOneOf, is a node whose harderror flag a HardError(true) parameter
\* of an earlier matched rule has set, and a later rule of that node misses,
\* the enclosing rule does not fall back to a later alternative or to its
\* isnt branch: parse returns the error of the rule that missed, with its kind
\* (ExpectedToken) and the location of the offending token unchanged.
C15_HardErrorPromotedOneLevel ==
    (Parsed /\ TargetsC) =>
        /\ (/\ Significant[1].kind = KText /\ Significant[1].str = "let"
            /\ Significant[2].kind # KTok("+")) =>
               /\ ~result[1].ok
               /\ result[1].err.kind = <<"ExpectedToken", KTok("+"), Significant[2].kind>>
               /\ result[1].err.at = FirstToken(FirstToken(0) + 1)
        /\ \A j \in DOMAIN Trace :
              (Trace[j].e = "nodefail" /\ Trace[j].node = "C" /\ Trace[j].res = "hard") =>
                  /\ ~result[1].ok
                  /\ \E f \in 1..(j - 1) :
                        /\ Trace[f].e = "fail" /\ Trace[f].node = "C"
                        /\ \A k \in (f + 1)..(j - 1) : Trace[k].e = "end"
                        /\ result[1].err.kind = Trace[f].data.kind
                        /\ result[1].err.at = Trace[f].data.at
                  /\ result[1].err.kind[1] = "ExpectedToken"
                  /\ result[1].err.kind[3] = TokAt(tokens, result[1].err.at).kind
                  /\ \A k \in (j + 1)..Len(Trace) :
                        /\ Trace[k].e \in {"attempt", "fail", "end", "nodefail"}
                        /\ Trace[k].e = "attempt" => Trace[k].res = "Err"

\* the first alternative of the IsOneOf, the node C, failed on `a` after
\* `let`; the second alternative, the word `let`, would have matched
C15_NoFallbackToLaterAlternative ==
    /\ Parsed /\ TargetsC /\ parser.entry = "is_one_of"
    /\ Len(tokens) = 4
    /\ tokens[1].str = "let" /\ tokens[3].str = "a"
    /\ result[1].err.kind = <<"ExpectedToken", KTok("+"), KText>>
    /\ result[1].err.at = 2

(***************************************************************************)
(* Control messages, read off the "drain" entries of the trace: entry e    *)
(* holds the bus a rule left, oldest message first, and the rule list.     *)
(***************************************************************************)
\* the rule list of e has a Label command named label
HasLabel(rules, label) ==
    \E j \in DOMAIN rules :
        rules[j].r = "Command" /\ rules[j].cmd.c = "Label" /\ rules[j].cmd.a = label

\* message q of the bus of e is received: every message sent after it is one
\* the loop receives and goes on from, an Ok or a Goto whose label the list has
Received(e, q) ==
    \A k \in (q + 1)..Len(Trace[e].data.bus) :
        \/ Trace[e].data.bus[k].m = "Ok"
        \/ /\ Trace[e].data.bus[k].m = "Goto"
           /\ HasLabel(Trace[e].data.rules, Trace[e].data.bus[k].label)

\* the trace entry with which the node that was being parsed at e ended
NodeEnd(e) ==
    CHOOSE x \in (e + 1)..Len(Trace) :
        /\ Trace[x].e \in {"nodeok", "nodefail"} /\ Trace[x].node = Trace[e].node
        /\ \A k \in (e + 1)..(x - 1) :
              ~(Trace[k].e \in {"nodeok", "nodefail"} /\ Trace[k].node = Trace[e].node)

\* the attributes of a node are what the parameters applied in the first e
\* entries of the trace stored in them
Kept(node, e) ==
    \A v \in DOMAIN node.variables :
        LET tr == SubSeq(Trace, 1, e)
            set == Fired(tr, 1, node.name, PSet(v))
        IN  CASE node.variables[v].k = "NodeList" -> node.variables[v].val = set
              [] node.variables[v].k = "Node" ->
                   node.variables[v].val = IF set = <<>> THEN <<>> ELSE <<set[Len(set)]>>
              [] node.variables[v].k = "Boolean" ->
                   node.variables[v].val = (Fired(tr, 1, node.name, PTrue(v)) # <<>>)
              [] OTHER -> TRUE

\* what follows a Return on the bus of a rule: no rule of the node is evaluated
\* any more, no target attempted, no parameter applied; the node is returned as
\* a success with the attributes it had; and the rule of the parent whose
\* target the node was matches and the parent goes on with its next rule;
\* always says whether this is claimed of every Return or only of a Return
\* that is received
ReturnEndsNode(always) ==
    Parsed =>
        \A e \in DOMAIN Trace :
            (/\ Trace[e].e = "drain"
             /\ \E q \in DOMAIN Trace[e].data.bus :
                   Trace[e].data.bus[q].m = "Return" /\ (always \/ Received(e, q))) =>
                LET x == NodeEnd(e)
                IN  /\ Trace[x].e = "nodeok"
                    /\ \A k \in (e + 1)..(x - 1) : Trace[k].e \in {"end", "drain"}
                    /\ Trace[x].depth = 0 =>
                          /\ result[1].ok /\ x = Len(Trace)
                          /\ Kept(result[1].entry, e)
                    /\ Trace[x].depth > 0 =>
                          /\ Trace[x + 1].e = "attempt" /\ Trace[x + 1].res = "Is"
                          /\ Trace[x + 1].node # Trace[x].node
                          /\ Trace[x + 2].e = "params"
                          /\ Trace[x + 2].data.t = "Node"
                          /\ Kept(Trace[x + 2].data.v, e)
                          /\ \E r \in (x + 3)..Len(Trace) :
                                /\ Trace[r].e = "rule" /\ Trace[r].depth = Trace[x + 1].depth
                                /\ Trace[r].alt = Trace[Owner(Trace, x + 1)].alt + 1
                                /\ \A k \in (x + 3)..(r - 1) : Trace[k].e = "end"

LabelDepths ==
    {Trace[j].depth : j \in {i \in DOMAIN Trace :
        /\ Trace[i].e = "rule" /\ Trace[i].rule = "Command"
        /\ Trace[i].data.cmd.c = "Label" /\ Trace[i].data.cmd.a = "after"}}

\* what follows a Break(n) on the bus of a rule of a list k levels deep in its
\* node: the n innermost lists, or all k when n > k, end one after the other
\* without another rule, each handing a Break of one less to the next; then,
\* when n < k, list k - n goes on with its next rule or ends, being at its
\* end; when n = k the node is returned as a success; when n > k the node
\* fails with CannotBreak(n - k); and the rule of the parent whose target the
\* node was sees a match or a miss and no Break; always says whether this is
\* claimed of every Break or only of a Break that is received
BreakEndsLists(always) ==
    Parsed =>
        /\ \A e \in DOMAIN Trace :
              \A q \in (IF Trace[e].e = "drain" THEN DOMAIN Trace[e].data.bus ELSE {}) :
                  (/\ Trace[e].data.bus[q].m = "Break"
                   /\ always \/ Received(e, q)) =>
                      LET n == Trace[e].data.bus[q].n
                          x == NodeEnd(e)
                          d == Trace[e].depth
                          k == d - Trace[x].depth
                          m == IF n < k THEN n ELSE k
                          last == e + 2 * m - 1
                      IN  /\ \A l \in 1..m :
                                /\ Trace[e + 2 * l - 1].e = "end"
                                /\ Trace[e + 2 * l - 1].depth = d - l + 1
                                /\ Trace[e + 2 * l - 1].res = IF l = n THEN "Ok" ELSE "Break"
                                /\ l < m =>
                                      /\ Trace[e + 2 * l].e = "drain"
                                      /\ Trace[e + 2 * l].depth = d - l
                                      /\ Trace[e + 2 * l].data.bus[Len(Trace[e + 2 * l].data.bus)]
                                            = MsgBreak(n - l)
                          /\ n < k =>
                                \/ /\ Trace[last + 1].e = "rule"
                                   /\ Trace[last + 1].depth = d - n
                                   /\ Trace[last + 1].alt = Trace[Owner(Trace, last + 1)].alt + 1
                                \/ /\ Trace[last + 1].e = "end"
                                   /\ Trace[last + 1].depth = d - n
                                   /\ Trace[last + 1].res = "Ok"
                          /\ n >= k => x = last + 1
                          /\ n = k => Trace[x].e = "nodeok"
                          /\ n > k =>
                                /\ Trace[x].e = "nodefail"
                                /\ Trace[x].data = <<"CannotBreak", n - k>>
                          /\ (n >= k /\ Trace[x].depth > 0) =>
                                /\ Trace[x + 1].e = "attempt"
                                /\ Trace[x + 1].node # Trace[x].node
                                /\ Trace[x + 1].res = IF n = k THEN "Is" ELSE "IsNot"
        /\ \A k \in 1..MaxNest, n \in 1..MaxBreak :
              (parser.entry = BreakName(k, n) /\ Significant[1].kind = KText
               /\ Significant[1].str = "let") =>
                  /\ n <= k => (result[1].ok /\ LabelDepths = 1..(k - n))
                  /\ n > k =>
                        /\ ~result[1].ok /\ LabelDepths = {}
                        /\ result[1].err.kind = <<"CannotBreak", n - k>>
        /\ (parser.entry = "break_parent" /\ Significant[1].kind = KText
            /\ Significant[1].str = "let") =>
               /\ result[1].ok
               /\ \E r \in DOMAIN Trace :
                     /\ Trace[r].e = "rule" /\ Trace[r].node = "break_parent"
                     /\ Trace[r].depth = 1 /\ Trace[r].alt = 2

Alone(e, q) ==
    \A k \in DOMAIN Trace[e].data.bus : k # q => Trace[e].data.bus[k].m = "Ok"

\* the indices of the rules of the node `name` evaluated in its lists of depth
\* d, in the order of their evaluation, from entry j of the trace on
RECURSIVE RuleAlts(_, _, _)
RuleAlts(name, d, j) ==
    IF j > Len(Trace)
    THEN <<>>
    ELSE (IF Trace[j].e = "rule" /\ Trace[j].node = name /\ Trace[j].depth = d
          THEN <<Trace[j].alt>>
          ELSE <<>>)
         \o RuleAlts(name, d, j + 1)

\* the text begins with the word `let`
BeginsWithLet == Significant[1].kind = KText /\ Significant[1].str = "let"

\* what follows a Goto(label) on the bus of a rule: when its rule list has a
\* Label of that name, the first such Label is the next rule evaluated, be it
\* before or after the rule; when it has none, the list ends with the Goto,
\* which is then on the bus of the rule of the enclosing list of the same
\* node, or, the list being the outermost of its node, the node fails with
\* LabelNotFound(label) and the rule of the parent whose target the node was
\* sees a miss; always says whether this is claimed of every Goto or only of
\* a Goto that is alone on its bus
GotoFindsLabel(always) ==
    Parsed =>
        /\ \A e \in DOMAIN Trace :
              \A q \in (IF Trace[e].e = "drain" THEN DOMAIN Trace[e].data.bus ELSE {}) :
                  (/\ Trace[e].data.bus[q].m = "Goto"
                   /\ always \/ Alone(e, q)) =>
                      LET label == Trace[e].data.bus[q].label
                          rules == Trace[e].data.rules
                      IN  IF HasLabel(rules, label)
                          THEN /\ Trace[e + 1].e = "rule"
                               /\ Trace[e + 1].node = Trace[e].node
                               /\ Trace[e + 1].depth = Trace[e].depth
                               /\ Trace[e + 1].data = CmdLabel(label)
                               /\ rules[Trace[e + 1].alt + 1] = CmdLabel(label)
                               /\ \A j \in 1..Trace[e + 1].alt : rules[j] # CmdLabel(label)
                          ELSE /\ Trace[e + 1].e = "end"
                               /\ Trace[e + 1].depth = Trace[e].depth
                               /\ Trace[e + 1].res = "Goto"
                               /\ \/ /\ Trace[e + 2].e = "drain"
                                     /\ Trace[e + 2].node = Trace[e].node
                                     /\ Trace[e + 2].depth = Trace[e].depth - 1
                                     /\ Trace[e + 2].data.bus[Len(Trace[e + 2].data.bus)]
                                           = MsgGoto(label)
                                  \/ /\ Trace[e + 2].e = "nodefail"
                                     /\ Trace[e + 2].node = Trace[e].node
                                     /\ Trace[e + 2].depth = Trace[e].depth - 1
                                     /\ Trace[e + 2].data = <<"LabelNotFound", label>>
                                     /\ Trace[e + 2].depth > 0 =>
                                           /\ Trace[e + 3].e = "attempt"
                                           /\ Trace[e + 3].node # Trace[e].node
                                           /\ Trace[e + 3].res = "IsNot"
        /\ (parser.entry = "goto_forward" /\ BeginsWithLet) =>
               RuleAlts("goto_forward", 1, 1) = <<0, 2, 3>>
        /\ (parser.entry = "goto_backward" /\ Len(Significant) = 2 /\ Significant[1].str = "a") =>
               RuleAlts("goto_backward", 1, 1) = <<0, 1, 2, 0, 1, 2>>
        /\ (parser.entry = "goto_enclosing" /\ BeginsWithLet) =>
               /\ RuleAlts("goto_enclosing", 1, 1) = <<0, 2>>
               /\ RuleAlts("goto_enclosing", 2, 1) = <<0>>
               /\ RuleAlts("goto_enclosing", 3, 1) = <<0>>
        /\ (parser.entry = "goto_missing" /\ BeginsWithLet) =>
               /\ ~result[1].ok /\ result[1].err.kind = <<"LabelNotFound", "nowhere">>
               /\ RuleAlts("goto_missing", 1, 1) = <<0>>
        /\ (parser.entry = "goto_nested" /\ BeginsWithLet) =>
               /\ ~result[1].ok /\ result[1].err.kind = <<"LabelNotFound", "inner">>
               /\ RuleAlts("goto_nested", 1, 1) = <<0, 1>>
        /\ (parser.entry = "goto_parent" /\ BeginsWithLet) =>
               /\ result[1].ok
               /\ RuleAlts("goto_parent", 1, 1) = <<0, 1, 2>>
               /\ RuleAlts("goto_child", 2, 1) = <<0>>

\* C18: a Goto(label) transfers execution to the Label command named label
\* in the rule list that received it, whether that Label lies before or after
\* the rule that sent it; if that list has no such Label the message is
\* passed to each enclosing rule list of the same node in turn, and if none
\* has it the node fails with LabelNotFound(label); a Goto never jumps into
\* another node.
C18_GotoFindsLabel == GotoFindsLabel(TRUE)

\* C18 as amended: the same, of a Goto that is the only control message
\* pending on the bus of its rule list.
C18_LoneGotoFindsLabel == GotoFindsLabel(FALSE)

\* a Goto went back to a Label before the rule that sent it, and the rules
\* after the Label ran a second time
C18_WentBackToLabel ==
    /\ Parsed /\ parser.entry = "goto_backward"
    /\ result[1].ok
    /\ RuleAlts("goto_backward", 1, 1) = <<0, 1, 2, 0, 1, 2>>

\* the positions of the bus of e that hold a message other than Msg::Ok
Pending(e) == {k \in DOMAIN Trace[e].data.bus : Trace[e].data.bus[k].m # "Ok"}

\* the message sent last among those pending on the bus of e
Newest(e) == Trace[e].data.bus[CHOOSE q \in Pending(e) : \A k \in Pending(e) : k <= q]

\* C19: when more than one control message is pending on the bus of a rule
\* list after a rule finishes, the position at which execution continues is
\* the one selected by the message sent last, and older messages do not
\* override it: a Return or a Break returns from the list, a Goto whose label
\* the list has makes that Label the next rule, a Goto whose label it has not
\* is returned from the list.
C19_NewestMessageWins ==
    Parsed =>
        \A e \in DOMAIN Trace :
            (Trace[e].e = "drain" /\ Cardinality(Pending(e)) > 1) =>
                CASE Newest(e).m = "Return" -> Trace[e].res = "Return"
                  [] Newest(e).m = "Break" ->
                       /\ Trace[e].res # "Next"
                       /\ Trace[e].data.msg =
                             IF Newest(e).n = 1 THEN MsgOk ELSE MsgBreak(Newest(e).n - 1)
                  [] Newest(e).m = "Goto" ->
                       IF HasLabel(Trace[e].data.rules, Newest(e).label)
                       THEN /\ Trace[e].res = "Next"
                            /\ Trace[e + 1].e = "rule"
                            /\ Trace[e + 1].depth = Trace[e].depth
                            /\ Trace[e + 1].data = CmdLabel(Newest(e).label)
                       ELSE /\ Trace[e].res = "Goto"
                            /\ Trace[e].data.msg = Newest(e)
                  [] OTHER -> TRUE

\* the parameters Goto(a), Goto(b) of one rule left both messages on the bus,
\* and the list went on at Label a, the label of the message sent first
C19_OldestGotoWon ==
    /\ Parsed /\ parser.entry = "two_gotos"
    /\ \E e \in DOMAIN Trace :
          /\ Trace[e].e = "drain"
          /\ Trace[e].data.bus = <<MsgGoto("a"), MsgGoto("b"), MsgOk>>
          /\ Trace[e + 1].e = "rule"
          /\ Trace[e + 1].data = CmdLabel("a")
    /\ RuleAlts("two_gotos", 1, 1) = <<0, 1, 2>>

\* a Goto parameter and a Goto returned by the nested rules: the list went on
\* at the label of the parameter, which was sent first
C19_ParameterGotoWon ==
    /\ Parsed /\ parser.entry = "nested_goto"
    /\ \E e \in DOMAIN Trace :
          /\ Trace[e].e = "drain" /\ Trace[e].depth = 1
          /\ Trace[e].data.bus = <<MsgGoto("a"), MsgGoto("b")>>
          /\ Trace[e + 1].e = "rule"
          /\ Trace[e + 1].data = CmdLabel("a")

\* a Return and a Break(1) sent after it: the Break, sent last, was received
C19_NewestBreakWon ==
    /\ Parsed /\ parser.entry = "return_break"
    /\ \E e \in DOMAIN Trace :
          /\ Trace[e].e = "drain" /\ Cardinality(Pending(e)) = 2
          /\ Trace[e].res = "Ok"

\* the values held by the Node and NodeList attributes of a map of variables
Held(variables) ==
    UNION {{variables[v].val[i] : i \in DOMAIN variables[v].val} :
              v \in {w \in DOMAIN variables : variables[w].k \in {"Node", "NodeList"}}}

\* the tokens of the tree below a map of variables: the tokens it holds and
\* the tokens the nodes it holds hold
TokensBelow(variables) ==
    {h.v : h \in {x \in Held(variables) : x.t = "Token"}}
    \cup UNION {{h.v : h \in {x \in Held(n.v.variables) : x.t = "Token"}} :
                  n \in {x \in Held(variables) : x.t = "Node"}}

\* C20: in the result of a successful parse no Node or NodeList attribute, of
\* a node or of the globals, holds a Whitespace or Control(Eol) token,
\* whichever kind of target (Token, Word, Enumerator, Any) produced the value.
C20_NoWhitespaceInTree ==
    (Parsed /\ result[1].ok) =>
        \A tok \in TokensBelow(result[1].entry.variables) \cup TokensBelow(result[1].globals) :
            ~IsWhitespace(tok.kind)

\* Is(Any) matched the space the text begins with and stored it in an
\* attribute of the node and in a global one
C20_AnyStoredWhitespace ==
    /\ Parsed /\ result[1].ok
    /\ parser.entry = "any"
    /\ Len(tokens) = 3
    /\ result[1].entry.variables["n"].val = <<TokenVal(tokens[1])>>
    /\ result[1].globals["all"].val = <<TokenVal(tokens[1])>>
    /\ tokens[1].kind = KWhitespace

\* Token, Word and Enumerator targets matched after a space and stored the
\* token after it
C20_OthersSkippedWhitespace ==
    /\ Parsed /\ result[1].ok
    /\ parser.entry \in {"token", "word", "enumerator"}
    /\ tokens[1].kind = KWhitespace
    /\ result[1].entry.variables["n"].val # <<>>
    /\ result[1].entry.variables["n"].val[1].v.index > 0

(***************************************************************************)
(* The cursor.                                                             *)
(***************************************************************************)
\* entry j of the trace is a match of a token: a Token, Word or Any target
\* of one of the matching rules compared Is
TokenMatch(j) ==
    /\ Trace[j].e = "attempt" /\ Trace[j].res = "Is"
    /\ Trace[j].data.target.m \in {"Token", "Word", "Any"}
    /\ Trace[j].rule \in {"Is", "Maybe", "While", "IsOneOf", "MaybeOneOf", "Until"}

\* a target that is compared with tokens only: not a node, and not an
\* enumerator one of whose values is a node
OnTokens(target) ==
    /\ target.m # "Node"
    /\ (target.m = "Enumerator" /\ target.name \in DOMAIN parser.grammar.enumerators) =>
          \A i \in DOMAIN parser.grammar.enumerators[target.name].values :
              parser.grammar.enumerators[target.name].values[i].m # "Node"

\* the first attempt on tokens after entry j, if there is one
NextAttempt(j) ==
    {k \in (j + 1)..Len(Trace) :
        /\ Trace[k].e = "attempt" /\ OnTokens(Trace[k].data.target)
        /\ \A l \in (j + 1)..(k - 1) :
              ~(Trace[l].e = "attempt" /\ OnTokens(Trace[l].data.target))}

\* a rule or a node failed between entries j and k
FailedBetween(j, k) == \E l \in (j + 1)..(k - 1) : Trace[l].e \in {"fail", "nodefail"}

\* entry k is a match that bound a token: a target compared with tokens
\* compared Is
Bound(k) ==
    /\ Trace[k].e = "attempt" /\ Trace[k].res = "Is"
    /\ OnTokens(Trace[k].data.target)

\* after a match of a token the parameters of the rule are applied with the
\* cursor on the matched token and the advance not yet made; the advance is
\* then pending; the next attempt begins one token further on; and the next
\* match binds a later token; always says whether the last two are claimed
\* also when a rule or a node failed in between
DeferredOnce(always) ==
    Parsed =>
        \A j \in DOMAIN Trace :
            TokenMatch(j) =>
                /\ Trace[j].after.to_advance = FALSE
                /\ Trace[j + 1].e = "params" =>
                      /\ Trace[j + 1].before = Trace[j].after
                      /\ Trace[j + 1].data = TokenVal(TokAt(tokens, Trace[j].after.idx))
                      /\ Trace[j + 1].after = Cursor(Trace[j].after.idx, TRUE)
                /\ \A k \in NextAttempt(j) :
                      (always \/ ~FailedBetween(j, k)) =>
                          Trace[k].before = Cursor(Trace[j].after.idx + 1, FALSE)
                /\ \A k \in (j + 1)..Len(Trace) :
                      (/\ Bound(k)
                       /\ \A l \in (j + 1)..(k - 1) : ~Bound(l)
                       /\ always \/ ~FailedBetween(j, k)) =>
                          Trace[k].after.idx > Trace[j].after.idx

\* C21: within one parse the next match attempt after a successful match of
\* a token begins at the token index following the matched token, so two
\* successive successful matches never bind the same token, and the
\* parameters of the matching rule are applied while the cursor still stands
\* on the matched token.
C21_DeferredOnce == DeferredOnce(TRUE)

\* C21 as amended: the same, of attempts and matches between which no rule
\* and no node failed; a failure puts a saved cursor back, and the tokens
\* matched since it was saved are matched again.
C21_DeferredOnceUnlessFailed == DeferredOnce(FALSE)

\* a token was matched, the next attempt began on the whitespace after it and
\* matched the token after that
C21_AdvancedThenSkipped ==
    /\ Parsed
    /\ \E j \in DOMAIN Trace :
          /\ TokenMatch(j)
          /\ \E k \in NextAttempt(j) :
                /\ ~FailedBetween(j, k)
                /\ Trace[k].res = "Is"
                /\ Trace[k].before.idx = Trace[j].after.idx + 1
                /\ Trace[k].after.idx = Trace[j].after.idx + 2


(* The cursor never goes back on success. *)
\* the events that record a failure: an error of a rule list or of a node, a
\* match that missed or failed, the end of a list that failed
Failure(ev) ==
    \/ ev.e \in {"fail", "nodefail"}
    \/ ev.e = "attempt" /\ ev.res # "Is"
    \/ ev.e = "end" /\ ev.res = "Err"

\* the token indexes the cursor stood on up to event l
Saved(l) ==
    {0} \cup {Trace[m].before.idx : m \in 1..l} \cup {Trace[m].after.idx : m \in 1..(l - 1)}

IdxBefore(l) == IF l = 1 THEN 0 ELSE Trace[l - 1].after.idx

\* C22: a node that returns successfully leaves the cursor's token index at
\* or after the index it was entered on, and from one step of a parse to the
\* next the index decreases only when a failure restores it to an index the
\* cursor stood on before
C22_CursorMonotonic ==
    Parsed =>
        /\ \A l \in DOMAIN Trace :
              Trace[l].e = "nodeok" => Trace[l].after.idx >= Trace[l].before.idx
        /\ \A l \in DOMAIN Trace :
              Trace[l].after.idx < IdxBefore(l) =>
                  /\ Failure(Trace[l])
                  /\ Trace[l].after.idx \in Saved(l)

\* C22 witness: a node entered after the first token returned successfully
\* further on, and a failure of the same parse restored an earlier index
C22_AdvancedAndRestored ==
    /\ Parsed
    /\ \E l \in DOMAIN Trace :
          /\ Trace[l].e = "nodeok"
          /\ Trace[l].before.idx > 0
          /\ Trace[l].after.idx > Trace[l].before.idx
    /\ \E l \in DOMAIN Trace : Failure(Trace[l]) /\ Trace[l].after.idx < IdxBefore(l)



(* The byte range of a node. *)
\* ParseResult::stringify_node on a node: the bytes [first, last) of the
\* text, given as the tokens that lie in that range
StringifyNode(node) ==
    {i \in 0..(Len(tokens) - 1) :
        /\ TokAt(tokens, i).len > 0
        /\ node.first_string_idx <= TokAt(tokens, i).index
        /\ TokAt(tokens, i).index + TokAt(tokens, i).len <= node.last_string_idx}

\* the events of the node invocation that ends with the nodeok event l
Invocation(l) ==
    {k \in 1..(l - 1) : \A m \in k..(l - 1) : Trace[m].depth > Trace[l].depth}

\* the token indexes the node invocation that ends at l consumed
Consumed(l) == {Trace[k].after.idx : k \in {m \in Invocation(l) : TokenMatch(m)}}

Last(indexes) == CHOOSE i \in indexes : \A j \in indexes : j <= i

\* the kind of the last rule of the node that returned at l
LastRule(l) ==
    parser.grammar.nodes[Trace[l].node].rules[Len(parser.grammar.nodes[Trace[l].node].rules)].r

\* the node applies NodeStart or NodeEnd in one of its rules
Pins(name) ==
    \E i \in DOMAIN parser.grammar.nodes[name].rules :
        \E j \in DOMAIN parser.grammar.nodes[name].rules[i].parameters :
            parser.grammar.nodes[name].rules[i].parameters[j].p \in {"NodeStart", "NodeEnd"}

\* the range of the node that returned at l is the default one, from the
\* token the node was entered on to the end of the last token it consumed
DefaultRange(l) ==
    /\ Trace[l].data.first_string_idx = TokAt(tokens, Trace[l].before.idx).index
    /\ Trace[l].data.last_string_idx =
          TokAt(tokens, Last(Consumed(l))).index + TokAt(tokens, Last(Consumed(l))).len
    /\ \A i \in StringifyNode(Trace[l].data) : i <= Last(Consumed(l))

\* C23: a successfully parsed node that applies neither NodeStart nor
\* NodeEnd stringifies to the text from the token the cursor stood on when
\* the node was entered to the end of the last token the node consumed, and
\* never includes the unconsumed token that follows, whether its last rule
\* was a token match or a While or Maybe that missed
C23_DefaultRange ==
    Parsed =>
        \A l \in DOMAIN Trace :
            (Trace[l].e = "nodeok" /\ ~Pins(Trace[l].node) /\ Consumed(l) # {}) => DefaultRange(l)

\* C23: the same for the nodes whose last rule is a token match
C23_DefaultRangeAfterTokenMatch ==
    Parsed =>
        \A l \in DOMAIN Trace :
            (/\ Trace[l].e = "nodeok" /\ ~Pins(Trace[l].node)
             /\ Consumed(l) # {} /\ LastRule(l) = "Is") =>
                DefaultRange(l)

\* C23 witness: a value whose last rule, a While or a Maybe, missed on a
\* token that the statement matched afterwards, and whose range includes it
C23_RangeIncludesUnconsumed ==
    /\ Parsed
    /\ EntrySucceeded
    /\ \E l \in DOMAIN Trace :
          /\ Trace[l].e = "nodeok"
          /\ ~Pins(Trace[l].node)
          /\ LastRule(l) \in {"While", "Maybe"}
          /\ Consumed(l) # {}
          /\ \E k \in (l + 1)..Len(Trace) :
                /\ TokenMatch(k)
                /\ Trace[k].data.target = MTToken(KTok(";"))
                /\ Trace[k].after.idx \in StringifyNode(Trace[l].data)



(* NodeStart and NodeEnd. *)
\* the indexes of the quotes of the text (`+` stands for the quote)
QuoteIdx == {i \in 0..(Len(tokens) - 1) : TokAt(tokens, i).kind = KTok("+")}

Nth(indexes, k) == CHOOSE i \in indexes : Cardinality({j \in indexes : j < i}) = k - 1

\* the text is delimited strings with nothing but whitespace around them
OnlyStrings ==
    /\ Cardinality(QuoteIdx) % 2 = 0
    /\ \A i \in 0..(Len(tokens) - 1) :
          \/ IsWhitespace(TokAt(tokens, i).kind) \/ TokAt(tokens, i).kind = KEof
          \/ \E k \in 1..(Cardinality(QuoteIdx) \div 2) :
                Nth(QuoteIdx, 2 * k - 1) <= i /\ i <= Nth(QuoteIdx, 2 * k)

Strings == result[1].entry.variables["strings"].val

\* the node spans its k-th pair of quotes, both included, and holds them
Spans(node, k) ==
    /\ 2 * k <= Cardinality(QuoteIdx)
    /\ node.first_string_idx = TokAt(tokens, Nth(QuoteIdx, 2 * k - 1)).index
    /\ node.last_string_idx =
          TokAt(tokens, Nth(QuoteIdx, 2 * k)).index + TokAt(tokens, Nth(QuoteIdx, 2 * k)).len
    /\ StringifyNode(node) = Nth(QuoteIdx, 2 * k - 1)..Nth(QuoteIdx, 2 * k)
    /\ node.variables["start"].val = <<TokenVal(TokAt(tokens, Nth(QuoteIdx, 2 * k - 1)))>>
    /\ node.variables["end"].val = <<TokenVal(TokAt(tokens, Nth(QuoteIdx, 2 * k)))>>

\* C24: NodeStart on a token match sets the node's first byte to the start
\* of the matched token and NodeEnd sets its last byte to the end of the
\* matched token, so every instance of the node Is(q)[NodeStart];
\* Until(q)[NodeEnd] spans from its opening q through its closing q, whatever
\* whitespace or blank lines come before it, and While over the node yields
\* one list element for each delimited string, in the order of the input
C24_PinnedRange ==
    (Parsed /\ parser.grammar = StringGrammar) =>
        /\ \A l \in DOMAIN Trace :
              (Trace[l].e = "nodeok" /\ Trace[l].node = "string") =>
                  /\ Cardinality(Consumed(l)) = 2
                  /\ Consumed(l) \subseteq QuoteIdx
                  /\ \A i \in Consumed(l) :
                        /\ Trace[l].data.first_string_idx <= TokAt(tokens, i).index
                        /\ TokAt(tokens, i).index + TokAt(tokens, i).len
                              <= Trace[l].data.last_string_idx
                  /\ \E i \in Consumed(l) :
                        Trace[l].data.first_string_idx = TokAt(tokens, i).index
                  /\ \E i \in Consumed(l) :
                        Trace[l].data.last_string_idx =
                            TokAt(tokens, i).index + TokAt(tokens, i).len
        /\ EntrySucceeded =>
              /\ \A k \in DOMAIN Strings : Strings[k].t = "Node" /\ Spans(Strings[k].v, k)
              /\ OnlyStrings => Len(Strings) = Cardinality(QuoteIdx) \div 2
        /\ (OnlyStrings /\ QuoteIdx # {}) => EntrySucceeded

\* C24 witness: two strings were collected in order, the first one after
\* whitespace that its range leaves out
C24_TwoStringsAfterWhitespace ==
    /\ Parsed /\ parser.grammar = StringGrammar /\ EntrySucceeded
    /\ Len(Strings) = 2
    /\ IsWhitespace(TokAt(tokens, 0).kind)
    /\ Strings[1].v.first_string_idx > 0
    /\ Strings[2].v.first_string_idx >= Strings[1].v.last_string_idx



(* Two parses. *)
ParsedTwice == Len(result) = 2

C26_Verdicts ==
    (Validated /\ ~validation[1].panicked) =>
        /\ Pass(validation[1]) <=> Len(validation[1].errors) = 0
        /\ Success(validation[1]) <=>
              (Len(validation[1].errors) = 0 /\ Len(validation[1].warnings) = 0)
        /\ Success(validation[1]) => Pass(validation[1])
        /\ (Len(validation[1].errors) = 0 /\ Len(validation[1].warnings) > 0) =>
              (Pass(validation[1]) /\ ~Success(validation[1]))

\* C26 witness: a grammar was validated with warnings and no error
C26_WarningsOnly ==
    /\ Validated /\ ~validation[1].panicked
    /\ Len(validation[1].errors) = 0
    /\ Len(validation[1].warnings) > 0
    /\ Pass(validation[1]) /\ ~Success(validation[1])



(* The warnings of the validator. *)
NodeRules(name) == FlatRules(parser.grammar.nodes[name].rules)

UsesAny(name) ==
    \E i \in DOMAIN NodeRules(name) : MTAny \in TargetsOf(NodeRules(name)[i])

UsesParameter(name, p) ==
    \E i \in DOMAIN NodeRules(name) :
        \E j \in DOMAIN ParametersOf(NodeRules(name)[i]) :
            ParametersOf(NodeRules(name)[i])[j].p = p

UsesPrintCommand(name) ==
    \E i \in DOMAIN NodeRules(name) :
        NodeRules(name)[i].r = "Command" /\ NodeRules(name)[i].cmd.c = "Print"

UnusedLabel(name) ==
    \E i \in DOMAIN NodeRules(name) :
        /\ NodeRules(name)[i].r = "Command" /\ NodeRules(name)[i].cmd.c = "Label"
        /\ GotoCount(parser.grammar.nodes[name].rules, NodeRules(name)[i].cmd.a) = 0

\* validate returned, and with a warning whenever some node of the grammar
\* uses one of the things it warns about
WarningsComplete(print_command) ==
    (Validated /\ ~validation[1].panicked) =>
        \A name \in DOMAIN parser.grammar.nodes :
            (\/ UsesAny(name)
             \/ UsesParameter(name, "Back")
             \/ UsesParameter(name, "Print")
             \/ UsesParameter(name, "Debug")
             \/ print_command /\ UsesPrintCommand(name)
             \/ UnusedLabel(name)) =>
                /\ Len(validation[1].warnings) > 0
                /\ ~Success(validation[1])

\* C27: validate produces at least one warning, so that success() is false,
\* for every grammar in which some node's rules use MatchToken::Any, a Back
\* parameter, a Print parameter or a Print command, a Debug parameter, or
\* declare a Label that no Goto of the same node targets
C27_WarningsComplete == WarningsComplete(TRUE)

\* C27: the same without the Print command
C27_WarningsButForPrintCommand == WarningsComplete(FALSE)

\* C27 witness: a grammar whose only remarkable rule is a Print command was
\* validated and succeeded
C27_PrintCommandSucceeded ==
    /\ Validated /\ ~validation[1].panicked
    /\ \E name \in DOMAIN parser.grammar.nodes : UsesPrintCommand(name)
    /\ Success(validation[1])



(* The literals of the lexer. *)
LexerLiterals == parser.lexer.token_kinds

Errors(kind) ==
    Cardinality({i \in DOMAIN validation[1].errors :
                    /\ validation[1].errors[i].kind = kind
                    /\ validation[1].errors[i].node_name = "__lexer__"})

\* one TokenCollision error for each literal declared more than once, none
\* for a literal declared once
CollisionsCounted ==
    \A i \in DOMAIN LexerLiterals :
        Errors(<<"TokenCollision", LexerLiterals[i]>>) =
            IF Count(LexerLiterals, LexerLiterals[i]) > 1 THEN 1 ELSE 0

\* C28: for any lexer configuration validate completes and returns a result,
\* which holds an EmptyToken error when some declared literal is the empty
\* string and exactly one TokenCollision error for each distinct literal
\* that is declared more than once
C28_LiteralsValidated ==
    Validated =>
        /\ ~validation[1].panicked
        /\ Contains(LexerLiterals, "") => Errors(<<"EmptyToken">>) > 0
        /\ CollisionsCounted

\* C28: the same for the lexers that declare no empty literal
C28_CollisionsCounted ==
    (Validated /\ ~Contains(LexerLiterals, "")) =>
        /\ ~validation[1].panicked
        /\ Errors(<<"EmptyToken">>) = 0
        /\ CollisionsCounted

\* C28 witness: a lexer with an empty literal was validated and validate did
\* not return
C28_EmptyLiteralPanicked ==
    /\ Validated
    /\ Contains(LexerLiterals, "")
    /\ validation[1].panicked

\* C28 witness: a literal declared three times was reported once
C28_TripleReportedOnce ==
    /\ Validated /\ ~validation[1].panicked
    /\ \E i \in DOMAIN LexerLiterals : Count(LexerLiterals, LexerLiterals[i]) = 3
    /\ CollisionsCounted



(* The labels of a node. *)
NodeErrors(kind, name) ==
    Cardinality({i \in DOMAIN validation[1].errors :
                    /\ validation[1].errors[i].kind = kind
                    /\ validation[1].errors[i].node_name = name})

\* C29: for each node validate reports a LabelNotFound error for every Goto,
\* command or parameter, whose label no Label command of that same node
\* declares, and a DuplicateLabel error when the node declares a label twice;
\* a Label of another node never satisfies a Goto
C29_LabelsPerNode ==
    (Validated /\ ~validation[1].panicked) =>
        \A name \in DOMAIN parser.grammar.nodes :
            \A label \in LabelNames :
                /\ NodeErrors(<<"LabelNotFound", label>>, name) =
                      IF LabelCount(parser.grammar.nodes[name].rules, label) = 0
                      THEN GotoCount(parser.grammar.nodes[name].rules, label)
                      ELSE 0
                /\ NodeErrors(<<"DuplicateLabel", label>>, name) > 0
                      <=> LabelCount(parser.grammar.nodes[name].rules, label) >= 2
                /\ LabelCount(parser.grammar.nodes[name].rules, label) >= 1 =>
                      NodeErrors(<<"DuplicateLabel", label>>, name) =
                          LabelCount(parser.grammar.nodes[name].rules, label) - 1

\* C29 witness: a node with a Goto parameter whose label only the other node
\* declares, twice, was validated: the Goto was reported for the one node and
\* the duplicate for the other
C29_LabelOfOtherNode ==
    /\ Validated /\ ~validation[1].panicked
    /\ parser.grammar \in {TwoNodeGrammar(rules, others) : rules \in LabelLists, others \in LabelLists}
    /\ GotoCount(parser.grammar.nodes["entry"].rules, "l") = 1
    /\ UsesParameter("entry", "Goto")
    /\ LabelCount(parser.grammar.nodes["entry"].rules, "l") = 0
    /\ LabelCount(parser.grammar.nodes["other"].rules, "l") = 2
    /\ NodeErrors(<<"LabelNotFound", "l">>, "entry") = 1
    /\ NodeErrors(<<"DuplicateLabel", "l">>, "other") = 1



(* The tokens of a text. *)
Lexed == tokens # <<>>

\* C30: the byte ranges [index, index + len) of the raw tokens are in
\* increasing order, pairwise disjoint and cover the text without a gap, the
\* last token is Control(Eof) with index = text.len() and len = 0, and so
\* stringify_slice over all the tokens is the text and over tokens[i..j] the
\* text from the start of token i to the end of token j - 1
C30_TokensPartitionText ==
    Lexed =>
        /\ tokens[1].index = 0
        /\ \A i \in 1..(Len(tokens) - 1) :
              /\ tokens[i].len > 0
              /\ tokens[i].index + tokens[i].len = tokens[i + 1].index
        /\ tokens[Len(tokens)] =
              [kind |-> KEof, index |-> ByteLen(txt), len |-> 0, str |-> ""]
        /\ \A i \in 1..(Len(tokens) - 1) : tokens[i].kind # KEof
        /\ StringifySlice(tokens, txt) = Bytes(txt)
        /\ \A i \in 1..Len(tokens) :
              \A j \in i..Len(tokens) :
                  /\ StringifySlice(SubSeq(tokens, i, j), txt) =
                        SubSeq(Bytes(txt), tokens[i].index + 1, tokens[j].index + tokens[j].len)
                  /\ \E a \in 1..(Len(txt) + 1) :
                        \E b \in (a - 1)..Len(txt) :
                            /\ StringifySlice(SubSeq(tokens, i, j), txt) = Bytes(SubSeq(txt, a, b))
                            /\ ByteLen(SubSeq(txt, 1, a - 1)) = tokens[i].index

\* C30 witness: a text with a two-byte character before a literal was
\* scanned into a Text token, the literal and the Eof
C30_LiteralAfterTwoBytes ==
    /\ Lexed
    /\ Len(tokens) = 3
    /\ tokens[1].kind = KText /\ tokens[1].len = 2
    /\ tokens[2].kind = KTok("+=") /\ tokens[2].index = 2



(* The literals in the tokens. *)
\* the position (1-based) of the character that begins at the byte index
CharAt(index) == CHOOSE q \in 1..(Len(txt) + 1) : ByteLen(SubSeq(txt, 1, q - 1)) = index

\* the declared literals that are a prefix of the text from the position q on
PrefixesAt(q) ==
    {j \in DOMAIN parser.lexer.token_kinds : MatchesAt(txt, q, parser.lexer.token_kinds[j])}

\* C31: at every position the lexer emits the longest declared literal that
\* is a prefix of the remaining input, the earliest declared one on ties,
\* also when the literal starts or ends inside an identifier-like run; where
\* no declared literal is a prefix of the remaining input, as for input that
\* is only a proper prefix of a literal, the token is not a literal, and no
\* literal begins inside a Text token
C31_LongestMatch ==
    Lexed =>
        \A t \in 1..(Len(tokens) - 1) :
            /\ PrefixesAt(CharAt(tokens[t].index)) # {} =>
                  \E j \in PrefixesAt(CharAt(tokens[t].index)) :
                      /\ tokens[t].kind = KTok(parser.lexer.token_kinds[j])
                      /\ tokens[t].len = ByteLen(Spelling(parser.lexer.token_kinds[j]))
                      /\ \A k \in PrefixesAt(CharAt(tokens[t].index)) :
                            /\ Len(Spelling(parser.lexer.token_kinds[k]))
                                  <= Len(Spelling(parser.lexer.token_kinds[j]))
                            /\ Len(Spelling(parser.lexer.token_kinds[k]))
                                  = Len(Spelling(parser.lexer.token_kinds[j])) => j <= k
            /\ PrefixesAt(CharAt(tokens[t].index)) = {} => tokens[t].kind[1] # "Token"
            /\ tokens[t].kind = KText =>
                  \A q \in CharAt(tokens[t].index)..(CharAt(tokens[t].index + tokens[t].len) - 1) :
                      PrefixesAt(q) = {}

\* C31 witness: with `+` declared before `+=`, a text that is `+=` after an
\* identifier-like character was scanned into a Text, the one literal `+=`
\* and the Eof
C31_LongerLiteralInsideRun ==
    /\ Lexed
    /\ parser.lexer.token_kinds = <<"+", "+=", "aa">>
    /\ txt = <<"a", "+", "=">>
    /\ Len(tokens) = 3
    /\ tokens[1].kind = KText
    /\ tokens[2].kind = KTok("+=")

\* C31 witness: a proper prefix of the literal `aa` was scanned as Text
C31_ProperPrefixIsText ==
    /\ Lexed
    /\ Contains(parser.lexer.token_kinds, "aa")
    /\ txt = <<"a">>
    /\ tokens[1].kind = KText



(* Whitespace and line ends in the tokens. *)
\* the token t covers the characters first..last of the text
Covers(t, first, last) ==
    /\ CharAt(tokens[t].index) = first
    /\ CharAt(tokens[t].index + tokens[t].len) = last + 1

\* the characters first..last are a maximal run of spaces and tabs
MaximalRun(first, last) ==
    /\ first <= last
    /\ \A q \in first..last : IsSpace(txt[q])
    /\ first > 1 => ~IsSpace(txt[first - 1])
    /\ last < Len(txt) => ~IsSpace(txt[last + 1])

\* every line terminator is exactly one Control(Eol) token
OneEolEach ==
    /\ \A q \in DOMAIN txt :
          txt[q] = "\n" =>
              Cardinality({t \in DOMAIN tokens : tokens[t].kind = KEol /\ Covers(t, q, q)}) = 1
    /\ \A t \in DOMAIN tokens :
          tokens[t].kind = KEol => \E q \in DOMAIN txt : txt[q] = "\n" /\ Covers(t, q, q)

\* C32: every maximal run of consecutive space and tab characters of the
\* input produces exactly one Whitespace token, which covers the whole run,
\* and every line terminator produces exactly one Control(Eol) token
C32_WhitespaceCollapsed ==
    Lexed =>
        /\ \A first \in DOMAIN txt :
              \A last \in DOMAIN txt :
                  MaximalRun(first, last) =>
                      /\ \E t \in DOMAIN tokens :
                            tokens[t].kind = KWhitespace /\ Covers(t, first, last)
                      /\ Cardinality({t \in DOMAIN tokens :
                                         /\ tokens[t].kind = KWhitespace
                                         /\ first <= CharAt(tokens[t].index)
                                         /\ CharAt(tokens[t].index) <= last}) = 1
        /\ OneEolEach

\* C32: every space and every tab is one Whitespace token of its own, and
\* every line terminator one Control(Eol) token
C32_OneTokenPerCharacter ==
    Lexed =>
        /\ \A q \in DOMAIN txt :
              IsSpace(txt[q]) =>
                  Cardinality({t \in DOMAIN tokens :
                                  tokens[t].kind = KWhitespace /\ Covers(t, q, q)}) = 1
        /\ \A t \in DOMAIN tokens :
              tokens[t].kind = KWhitespace =>
                  \E q \in DOMAIN txt : IsSpace(txt[q]) /\ Covers(t, q, q)
        /\ OneEolEach

\* the assertion of tests::stringify on tokens[1..5], with `aa` standing for
\* the literal `Function` and `a` for the characters `d` and `1`
StringifyTest ==
    StringifySlice(SubSeq(LexUtf8([token_kinds |-> <<"+", "+=", "aa">>],
                                  <<"a", "a", "a", "\t", " ", "a", " ", "+">>), 2, 5),
                   <<"a", "a", "a", "\t", " ", "a", " ", "+">>)
        = Bytes(<<"a", "\t", " ", "a">>)

\* C32 witness: `a`, tab, space was scanned into four tokens, the Eof
\* included, and the scanner passes the assertion of tests::stringify
C32_TabAndSpaceApart ==
    /\ Lexed
    /\ txt = <<"a", "\t", " ">>
    /\ Len(tokens) = 4
    /\ tokens[2].kind = KWhitespace /\ tokens[2].len = 1
    /\ tokens[3].kind = KWhitespace /\ tokens[3].len = 1
    /\ StringifyTest

\* the parser was read back and the text parsed with it
Reloaded == Len(result) = 2

\* C33: the parser read back from its textual form is equal to the parser
\* written, lexer configuration, grammar and entry name, and parsing a text
\* with it gives the result the parser written gave
C33_RoundTrip ==
    [][LoadJson => /\ parser' = parser
                   /\ result'[2].ok = result[1].ok
                   /\ result'[2].entry = result[1].entry
                   /\ result'[2].globals = result[1].globals
                   /\ result'[2].err = result[1].err]_vars

\* the grammar, the entry name and the literals of the lexer are read back
\* as they were written
C33_DataRoundTrip ==
    [][LoadJson => /\ parser'.grammar = parser.grammar
                   /\ parser'.entry = parser.entry
                   /\ parser'.lexer.token_kinds = parser.lexer.token_kinds]_vars

\* a parser without preprocessors is read back equal and parses as before
C33_RoundTripWithoutPreprocessors ==
    [][LoadJson /\ parser.lexer.preprocessors = <<>>
           => /\ parser' = parser
              /\ result'[2].ok = result[1].ok
              /\ result'[2].entry = result[1].entry
              /\ result'[2].globals = result[1].globals
              /\ result'[2].err = result[1].err]_vars

\* C33 witness: a parser whose lexer had a preprocessor was read back, and
\* the text it parsed has a space, which the preprocessor dropped
C33_PreprocessorNotSaved ==
    /\ Reloaded
    /\ parser.lexer.preprocessors = <<>>
    /\ \E i \in DOMAIN txt : txt[i] = " "
    /\ \E i \in DOMAIN tokens : tokens[i].kind = KWhitespace
    /\ result[2].ok
    /\ result[2].entry # result[1].entry

\* the entries of the trace at which the body of a Loop was started, and the
\* entry at which the body started at l ended
LoopRuns == {l \in DOMAIN Trace : Trace[l].e = "loop"}
BodyEnd(l) == ListEnd(Trace, l, Trace[l].depth)

\* the entries at which a rule of the body started at l left a message m of
\* the kind and number given that the body received
BodySent(l, kind, n) ==
    {e \in (l + 1)..(BodyEnd(l) - 1) :
        /\ Trace[e].e = "drain" /\ Trace[e].depth = Trace[l].depth + 1
        /\ \E q \in DOMAIN Trace[e].data.bus :
              /\ Trace[e].data.bus[q].m = kind /\ Trace[e].data.bus[q].n = n
              /\ Received(e, q)
              /\ \A k \in 1..(q - 1) : Trace[e].data.bus[k].m = "Ok"}

\* the rules evaluated directly after a Loop: the entries for the rule of the
\* list of the Loop whose index is one more than that of the Loop
AfterLoop ==
    {r \in DOMAIN Trace :
        /\ Trace[r].e = "rule"
        /\ \E l \in LoopRuns :
              Trace[r].depth = Trace[l].depth /\ Trace[r].alt = Trace[l - 1].alt + 1}

\* what the body of a Loop yields and what follows: Ok, also after a Break(1)
\* of one of its rules, and the Loop is the next rule of its list again; an
\* error, and the rule fails; a Return or a Break, and the list of the Loop
\* ends; a Goto, and the Label of the list of the Loop is the next rule, or
\* the list ends with the Goto when it has no such Label.  A Break(1) of a
\* rule of the body ends the body with Ok, a Break(2) ends it with a Break
\* and the list of the Loop with Ok.  The rule after the Loop is evaluated
\* only when it is a Label and a Goto to it was on the bus.  with_back says
\* whether a Back is allowed for: a Back that leaves the body, and a Back
\* on the bus before the rule after the Loop
LoopExits(with_back) ==
    (Parsed /\ ~Unwinds(result[1].err)) =>
        /\ \A l \in LoopRuns :
              LET d == Trace[l].depth
                  x == BodyEnd(l)
              IN  /\ Trace[l - 1].e = "rule" /\ Trace[l - 1].rule = "Loop"
                  /\ CASE Trace[x].res = "Ok" ->
                            /\ Trace[x + 1].e = "rule" /\ Trace[x + 1].depth = d
                            /\ Trace[x + 1].rule = "Loop"
                            /\ Trace[x + 1].alt = Trace[l - 1].alt
                            /\ Trace[x + 2].e = "loop"
                       [] Trace[x].res = "Err" ->
                            Trace[x + 1].e = "fail" /\ Trace[x + 1].depth = d
                       [] Trace[x].res = "Return" ->
                            /\ Trace[x + 1].e = "drain"
                            /\ Trace[x + 2].e = "end" /\ Trace[x + 2].depth = d
                            /\ Trace[x + 2].res = "Return"
                       [] Trace[x].res = "Break" ->
                            /\ Trace[x + 1].e = "drain"
                            /\ Trace[x + 2].e = "end" /\ Trace[x + 2].depth = d
                            /\ Trace[x + 2].res \in {"Ok", "Break"}
                       [] Trace[x].res = "Goto" ->
                            /\ Trace[x + 1].e = "drain"
                            /\ IF HasLabel(Trace[x + 1].data.rules, Trace[x + 1].data.msg.label)
                                  \/ Trace[x + 1].res = "Next"
                               THEN /\ Trace[x + 2].e = "rule" /\ Trace[x + 2].depth = d
                                    /\ Trace[x + 2].data.r = "Command"
                                    /\ Trace[x + 2].data.cmd.c = "Label"
                               ELSE /\ Trace[x + 2].e = "end" /\ Trace[x + 2].depth = d
                                    /\ Trace[x + 2].res = "Goto"
                       [] Trace[x].res = "Back" ->
                            /\ with_back
                            /\ Trace[x + 1].e = "drain"
                            /\ \/ /\ Trace[x + 2].e = "rule" /\ Trace[x + 2].depth = d
                                  /\ Trace[x + 2].alt < Trace[l - 1].alt
                               \/ /\ Trace[x + 2].e = "end" /\ Trace[x + 2].depth = d
                                  /\ Trace[x + 2].res = "Back"
                  /\ \A e \in BodySent(l, "Break", 1) :
                        e + 1 = x /\ Trace[x].res = "Ok"
                  /\ \A e \in BodySent(l, "Break", 2) :
                        /\ e + 1 = x /\ Trace[x].res = "Break"
                        /\ Trace[x + 2].e = "end" /\ Trace[x + 2].depth = d
                        /\ Trace[x + 2].res = "Ok"
        /\ \A r \in AfterLoop :
              /\ Trace[r - 1].e = "drain" /\ Trace[r - 1].depth = Trace[r].depth
              /\ \/ /\ Trace[r].data.r = "Command" /\ Trace[r].data.cmd.c = "Label"
                    /\ \E q \in DOMAIN Trace[r - 1].data.bus :
                          Trace[r - 1].data.bus[q] = MsgGoto(Trace[r].data.cmd.a)
                 \/ /\ with_back
                    /\ \E q \in DOMAIN Trace[r - 1].data.bus :
                          Trace[r - 1].data.bus[q].m = "Back"

\* C34: a Loop re-executes its body until the body yields a Return, a Goto
\* whose Label lies in an enclosing rule list, a Break that reaches beyond the
\* body, or an error; a Break(1) sent directly in the body only ends the
\* iteration and the body starts again; a Break(2) also ends the rule list of
\* the Loop; the rule directly after a Loop is reached only through a Goto to
\* a Label located there.
C34_LoopExits == LoopExits(FALSE)

\* C34 as amended: the same, with a Back among the messages that end the
\* Loop when it reaches beyond the first rule of the body, and among the ways
\* to the rule after the Loop when a later rule of the list sends it.
C34_LoopExitsOrBack == LoopExits(TRUE)

\* C34 witness: the body of a Loop ran three times, each of the first two
\* ended by a Break(1), and the third left for the Label after the Loop
C34_BrokeTwiceThenLeft ==
    /\ Parsed /\ result[1].ok
    /\ Cardinality(LoopRuns) = 3
    /\ Cardinality({l \in LoopRuns : BodySent(l, "Break", 1) # {}}) = 2
    /\ \E l \in LoopRuns : Trace[BodyEnd(l)].res = "Goto"
    /\ AfterLoop # {}
    /\ result[1].entry.variables["n"].val = 0

\* the value the match recorded at entry a of the trace produced: the node
\* parse_node returned for a target that is a node or an enumerator value
\* that is one, the token under the cursor for the other targets
MatchedValue(a) ==
    IF /\ Trace[a].data.target.m \in {"Node", "Enumerator"}
       /\ a > 1 /\ Trace[a - 1].e = "nodeok" /\ Trace[a - 1].depth = Trace[a].depth
    THEN NodeVal(Trace[a - 1].data)
    ELSE TokenVal(TokAt(tokens, Trace[a].after.idx))

\* the entries at which a rule of one of the kinds applied a Set or a Global
SetsApplied(kinds) ==
    {j \in DOMAIN Trace :
        /\ Trace[j].e = "params" /\ Trace[j].rule \in kinds
        /\ \E k \in DOMAIN Applied(Trace, j) : Applied(Trace, j)[k].p \in {"Set", "Global"}}

\* the value handed to the Set and Global parameters of a rule of one of the
\* kinds is the value its match produced; and after a successful parse a
\* Node attribute of the entry node holds the value of the last Set that
\* named it
SetStoresMatch(kinds) ==
    Parsed =>
        /\ \A j \in SetsApplied(kinds) :
              /\ Trace[j - 1].e = "attempt" /\ Trace[j - 1].res = "Is"
              /\ Trace[j].data = MatchedValue(j - 1)
        /\ result[1].ok =>
              \A v \in DOMAIN result[1].entry.variables :
                  (/\ result[1].entry.variables[v].k = "Node"
                   /\ Fired(Trace, 1, parser.entry, PSet(v)) # <<>>) =>
                      result[1].entry.variables[v].val
                          = <<Fired(Trace, 1, parser.entry, PSet(v))[
                                  Len(Fired(Trace, 1, parser.entry, PSet(v)))]>>

RuleKinds ==
    {"Is", "Maybe", "While", "IsOneOf", "MaybeOneOf", "Until", "UntilOneOf"}

\* C35: whenever a rule's target matches and a Set(v) or Global(v) parameter
\* fires, the value stored is the value produced by that match, the parsed
\* sub-node when the target is a node (or an enumerator resolving to one) and
\* the matched token when the target is a token, for Is, Maybe, While,
\* IsOneOf, MaybeOneOf, Until and UntilOneOf alike; for a Node variable a
\* later Set replaces the earlier value.
C35_SetStoresMatch == SetStoresMatch(RuleKinds)

\* the same of every rule kind but Until
C35_SetStoresMatchButUntil == SetStoresMatch(RuleKinds \ {"Until"})

\* C35 witness: an Until whose target is a node matched, the node was
\* returned, and the Set of the rule was handed a token
C35_UntilStoredToken ==
    /\ Parsed /\ result[1].ok /\ parser.entry = "until_node"
    /\ \E j \in SetsApplied({"Until"}) :
          /\ Trace[j - 2].e = "nodeok"
          /\ Trace[j].data.t = "Token"
    /\ result[1].entry.variables["n"].val[1].t = "Token"

\* the entries of the trace at which the target of an Isnt was compared
\* with the given outcome
IsntAttempts(res) ==
    {a \in DOMAIN Trace :
        Trace[a].e = "attempt" /\ Trace[a].rule = "Isnt" /\ Trace[a].res = res}

\* C36: when the target of an Isnt matches at the cursor the node fails with
\* ExpectedToNotBe and the cursor is put back where it was when the node
\* began; when the target misses, the nested rules run, the Isnt raises no
\* error, and the Isnt consumes no token: the cursor it leaves has no advance
\* pending and the first token after the whitespace is the one that was
\* there before, which is what the next rule's match is made against.
C36_IsntConsumesNothing ==
    (Parsed /\ ~Unwinds(result[1].err)) =>
        /\ \A a \in IsntAttempts("Is") :
              LET x == NodeEnd(a)
              IN  /\ Trace[a + 1].e = "fail" /\ Trace[a + 1].rule = "Isnt"
                  /\ Trace[a + 1].data.kind[1] = "ExpectedToNotBe"
                  /\ Trace[a + 1].after = Trace[x].before
                  /\ \A k \in (a + 2)..(x - 1) : Trace[k].e = "end" /\ Trace[k].res = "Err"
                  /\ Trace[x].e = "nodefail" /\ Trace[x].data[1] = "ExpectedToNotBe"
                  /\ Trace[x].after = Trace[x].before
                  /\ Trace[x].depth = 0 =>
                        /\ ~result[1].ok /\ result[1].err.kind[1] = "ExpectedToNotBe"
                        /\ result[1].exit = Trace[x].before
                  /\ Trace[x].depth > 0 =>
                        /\ Trace[x + 1].e = "attempt" /\ Trace[x + 1].res = "IsNot"
                        /\ Trace[x + 1].after = Trace[x].before
        /\ \A a \in IsntAttempts("IsNot") :
              LET nested == Trace[Owner(Trace, a)].data.rules
                  x == ListEnd(Trace, a + 1, Trace[a].depth)
              IN  /\ ~Trace[a].after.to_advance
                  /\ SkipWhitespace(tokens, Trace[a].after.idx)
                        = SkipWhitespace(tokens, Trace[a].before.idx)
                  /\ Trace[a + 1].e = "isnt" /\ Trace[a + 1].after = Trace[a].after
                  /\ IF nested = <<>>
                     THEN x = a + 2
                     ELSE /\ Trace[a + 2].e = "rule" /\ Trace[a + 2].depth = Trace[a].depth + 1
                          /\ Trace[a + 2].data = nested[1]
                  /\ Trace[x].res # "Err" => Trace[x + 1].e # "fail"
                  /\ (nested = <<>> /\ Trace[x + 1].e = "rule" /\ Trace[x + 2].e = "attempt") =>
                        /\ Trace[x + 2].before = Trace[a].after
                        /\ (Trace[x + 2].res = "Is" /\ Trace[x + 2].data.target # MTAny) =>
                              TokAt(tokens, Trace[x + 2].after.idx)
                                  = TokAt(tokens, SkipWhitespace(tokens, Trace[a].before.idx))

\* C36 witness: the target of an Isnt, a node, missed after it had matched a
\* word, behind whitespace, and the next rule, whose target is a text, took
\* that word
C36_NodeMissedThenTaken ==
    /\ Parsed /\ result[1].ok /\ parser.entry = "guard"
    /\ \E a \in IsntAttempts("IsNot") :
          /\ Trace[a].data.target = MTNode("pair")
          /\ TokAt(tokens, Trace[a].before.idx).kind = KWhitespace
    /\ \E k \in DOMAIN Trace :
          Trace[k].e = "attempt" /\ Trace[k].data.target = MTToken(KText)
    /\ Len(result[1].entry.variables["next"].val) = 1
    /\ result[1].entry.variables["next"].val[1].v.str = "a"

\* the target of an Isnt matched in the node guard, which failed, and the
\* rule of parent that follows took the first token
C36_MatchedAndRestored ==
    /\ Parsed /\ result[1].ok /\ parser.entry = "parent"
    /\ IsntAttempts("Is") # {}
    /\ result[1].entry.variables["n"].val = <<>>
    /\ result[1].entry.variables["next"].val = <<TokenVal(tokens[1])>>

\* how many times the lexeme stands in the text from position i on, without
\* another between
RECURSIVE Run(_, _)
Run(lexeme, i) ==
    IF i > Len(txt) \/ txt[i] # lexeme THEN 0 ELSE 1 + Run(lexeme, i + 1)

\* what the text gives the attributes of count: the + and the - at its
\* beginning, and the ; after them
PlusRun == Run("+", 1)
MinusRun == Run("-", 1 + PlusRun)
SemiRun == Run(";", 1 + PlusRun + MinusRun)

\* what the text gives the attributes of flags: one +, one - and one ;
HasPlus == txt # <<>> /\ txt[1] = "+"
HasMinus == Run("-", IF HasPlus THEN 2 ELSE 1) > 0
HasSemi == Run(";", 1 + (IF HasPlus THEN 1 ELSE 0) + (IF HasMinus THEN 1 ELSE 0)) > 0

\* a op b in integer arithmetic
NumberHolds(op, a, b) ==
    CASE op = "Equal" -> a = b
      [] op = "NotEqual" -> a # b
      [] op = "GreaterThan" -> a > b
      [] op = "LessThan" -> a < b
      [] op = "GreaterThanOrEqual" -> a >= b
      [] op = "LessThanOrEqual" -> a <= b

\* of two Booleans only Equal and NotEqual hold, by the equality of the values
BooleanHolds(op, p, q) ==
    CASE op = "Equal" -> p = q
      [] op = "NotEqual" -> p # q
      [] OTHER -> FALSE

\* the Compare of the grammar, and whether it holds of the attributes the
\* text gives the node that has it
TheCompare == parser.grammar.nodes["count"].rules[4]
CompareShouldHold ==
    IF parser.entry = "flags"
    THEN BooleanHolds(TheCompare.cmd.op, HasPlus /\ ~HasSemi, HasMinus)
    ELSE NumberHolds(TheCompare.cmd.op, PlusRun - SemiRun, MinusRun)
CompareRan == \E e \in DOMAIN Trace : Trace[e].e = "compare"

\* C37: a Compare of two Number attributes of the enclosing node holding a
\* and b runs its nested rules iff a op b holds in integer arithmetic, for
\* each of the six operators; of two Boolean attributes only Equal and
\* NotEqual can hold, by value equality; when the comparison does not hold
\* the nested rules are skipped without error; an Error command reached in
\* the nested rules fails the node with Message(msg).
C37_CompareSemantics ==
    Parsed =>
        /\ CompareRan <=> CompareShouldHold
        /\ \A e \in DOMAIN Trace :
              Trace[e].e = "compare" =>
                  /\ Trace[e + 1].e = "rule" /\ Trace[e + 1].depth = Trace[e].depth + 1
                  /\ Trace[e + 1].data = TheCompare.rules[1]
        /\ IF CompareRan /\ TheCompare.rules = <<CmdError("holds")>>
           THEN /\ ~result[1].ok
                /\ result[1].err.kind = <<"Message", "holds">>
                /\ \E x \in DOMAIN Trace :
                      /\ Trace[x].e = "nodefail" /\ Trace[x].data = <<"Message", "holds">>
                      /\ Trace[x].node = IF parser.entry = "flags" THEN "flags" ELSE "count"
           ELSE /\ result[1].ok
                /\ \A x \in DOMAIN Trace : Trace[x].e \notin {"fail", "nodefail"}

\* C37 witness: x is below y, x having been counted up once and down twice,
\* and the nested rules of Compare(x, y, LessThan) ran and failed the node
C37_BelowZeroIsLess ==
    /\ Parsed /\ parser.entry = "count"
    /\ PlusRun = 1 /\ MinusRun = 0 /\ SemiRun = 2
    /\ TheCompare.cmd.op = "LessThan"
    /\ CompareRan
    /\ ~result[1].ok /\ result[1].err.kind = <<"Message", "holds">>
    /\ result[1].err.node[1].variables["x"].val = -1

\* the variables are exactly the declared ones, each of its declared kind
AsDeclared(variables, declared) ==
    /\ DOMAIN variables = DOMAIN declared
    /\ \A v \in DOMAIN declared : variables[v].k = declared[v]

\* the variables of the grammars of SpecC that no parameter names
NeverAssigned(name) ==
    CASE name = "count" -> {"spare", "flag", "one", "list"}
      [] name = "flags" -> {"spare"}
      [] name = "parent" -> {"others"}
      [] name = "globals" -> {"seen", "any", "all"}

\* the default of each kind of variable: no node, no nodes, false, 0
HoldsDefault(var) ==
    CASE var.k = "Node" -> var.val = <<>>
      [] var.k = "NodeList" -> var.val = <<>>
      [] var.k = "Boolean" -> var.val = FALSE
      [] var.k = "Number" -> var.val = 0

\* the node has its declared variables, those never assigned hold their
\* defaults, and the others what the text gives them
NodeAsExpected(node) ==
    /\ AsDeclared(node.variables, parser.grammar.nodes[node.name].variables)
    /\ \A v \in NeverAssigned(node.name) : HoldsDefault(node.variables[v])
    /\ node.name = "count" =>
          /\ node.variables["x"].val = PlusRun - SemiRun
          /\ node.variables["y"].val = MinusRun
    /\ node.name = "flags" =>
          /\ node.variables["p"].val = (HasPlus /\ ~HasSemi)
          /\ node.variables["q"].val = HasMinus
    /\ node.name = "parent" =>
          /\ Len(node.variables["child"].val) = 1
          /\ node.variables["child"].val[1].t = "Node"
          /\ node.variables["child"].val[1].v.name = "count"

\* C38: every node of a parse result, and the globals map, contains exactly
\* the variables declared for it in the grammar; a variable no parameter
\* assigned holds its default (Node: empty, NodeList: empty list, Boolean:
\* false, Number: 0), so that Increment applied k times and Decrement m times
\* leave a Number at k - m.
C38_DeclaredWithDefaults ==
    Parsed =>
        /\ \A e \in DOMAIN Trace : Trace[e].e = "nodeok" => NodeAsExpected(Trace[e].data)
        /\ result[1].ok =>
              /\ NodeAsExpected(result[1].entry)
              /\ result[1].entry.name = "parent" =>
                    NodeAsExpected(result[1].entry.variables["child"].val[1].v)
              /\ AsDeclared(result[1].globals, parser.grammar.globals)
              /\ \A v \in NeverAssigned("globals") : HoldsDefault(result[1].globals[v])
              /\ result[1].globals["total"].val =
                     IF parser.entry = "flags" THEN 0 ELSE PlusRun

\* C38 witness: the result is parent with a count in child whose x, counted
\* up once and down twice, holds -1, and whose y, never counted, holds 0
C38_OneUpTwoDown ==
    /\ Parsed /\ result[1].ok /\ parser.entry = "parent"
    /\ PlusRun = 1 /\ MinusRun = 0 /\ SemiRun = 2
    /\ result[1].entry.variables["child"].val[1].v.variables["x"].val = -1
    /\ result[1].entry.variables["child"].val[1].v.variables["y"].val = 0
    /\ result[1].entry.variables["child"].val[1].v.variables["one"].val = <<>>
    /\ result[1].entry.variables["others"].val = <<>>
    /\ result[1].globals["total"].val = 1
    /\ result[1].globals["seen"].val = FALSE

\* the first part of C38 for any grammar: every node returned holds its
\* declared variables, and so do the globals of a result
C38_DeclaredEverywhere ==
    Parsed =>
        /\ \A e \in DOMAIN Trace :
              Trace[e].e = "nodeok" =>
                  AsDeclared(Trace[e].data.variables,
                             parser.grammar.nodes[Trace[e].data.name].variables)
        /\ result[1].ok => AsDeclared(result[1].globals, parser.grammar.globals)

\* the call of match_token logged at a had its sub-node, the target or the
\* enumerator's value, fail softly: parse_node returned the error as a miss
\* and the node it had built was dropped
Discards(a) ==
    /\ Trace[a].e = "attempt" /\ a > 1
    /\ Trace[a].data.target.m \in {"Node", "Enumerator"}
    /\ Trace[a - 1].e = "nodefail" /\ Trace[a - 1].res = "soft"
    /\ Trace[a - 1].depth = Trace[a].depth

AttemptingRules == {"Maybe", "MaybeOneOf", "IsOneOf", "While"}
ByAttemptingRule(a) ==
    Trace[a].rule \in AttemptingRules \/ Trace[a].data.target.m = "Enumerator"

ParentKept(a) == Trace[a].data.variables[2] = Trace[a].data.variables[1]
GlobalsKept(a) == Trace[a].data.globals[2] = Trace[a].data.globals[1]

\* the parameter the sub-nodes of SpecG apply to their word
TheWrite == parser.grammar.nodes["child"].rules[1].parameters[1]

\* C39: when a sub-node attempted by Maybe, MaybeOneOf, IsOneOf, While or an
\* Enumerator fails softly and is discarded, the parent node's attributes and
\* the globals map are the same as immediately before the attempt, also when
\* the discarded sub-node, or a node nested in it, had applied Global,
\* IncrementGlobal, TrueGlobal or FalseGlobal parameters before failing.
C39_SoftFailureLeavesNoTrace ==
    Parsed =>
        \A a \in DOMAIN Trace :
            (Discards(a) /\ ByAttemptingRule(a)) => (ParentKept(a) /\ GlobalsKept(a))

\* the part of C39 about the parent: its attributes are those from before
\* the attempt
C39_ParentAttributesKept ==
    Parsed => \A a \in DOMAIN Trace : (Discards(a) /\ ByAttemptingRule(a)) => ParentKept(a)

\* the globals are those from before the attempt when the sub-node wrote
\* none, and differ in nothing but the global it wrote
C39_GlobalsKeptUnlessWritten ==
    Parsed =>
        \A a \in DOMAIN Trace :
            (Discards(a) /\ ByAttemptingRule(a)) =>
                /\ TheWrite.p = "Set" => GlobalsKept(a)
                /\ \A v \in DOMAIN Trace[a].data.globals[1] :
                      v # TheWrite.v =>
                          Trace[a].data.globals[2][v] = Trace[a].data.globals[1][v]

\* C39 witness: a sub-node counted its word in the global n and failed at
\* the missing ; the parse went on without it and returned n = 1 and no
\* sub-node
C39_DiscardedNodeCounted ==
    /\ Parsed /\ result[1].ok
    /\ TheWrite = PIncrementGlobal("n")
    /\ \E a \in DOMAIN Trace :
          /\ Discards(a) /\ ByAttemptingRule(a)
          /\ ParentKept(a) /\ ~GlobalsKept(a)
          /\ Trace[a].data.globals[1]["n"].val = 0
          /\ Trace[a].data.globals[2]["n"].val = 1
    /\ result[1].globals["n"].val = 1
    /\ result[1].entry.variables["sub"].val = <<>>
    /\ result[1].entry.variables["subs"].val = <<>>


====
